---- MODULE Spec2Model ----
(***************************************************************************)
(* Model of the Xero MCP server: the navigation state machine and tool     *)
(* router (src/index.ts), the domain handlers (src/domains/*.ts) and the   *)
(* lazily built REST client (src/utils/client.ts).                         *)
(*                                                                         *)
(* Encoding of JavaScript values:                                          *)
(*   - null and undefined are the strings NULL and UNDEFINED;              *)
(*   - a tool identifier is the tuple of its "_"-separated segments, so    *)
(*     "xero_contacts_list" is <<"xero", "contacts", "list">> and the      *)
(*     prefix "xero_contacts_" is <<"xero", "contacts", "">>;              *)
(*   - a text is a tuple of string tokens; the token NAMES stands for the  *)
(*     tool identifiers interpolated into it, kept in the field names;     *)
(*   - the arguments object of a call is [given, props], props a set of    *)
(*     <<key, value>> pairs;                                               *)
(*   - an HTTP body is the tuple of its lexical tokens, so the JSON text   *)
(*     {"Items":[1]} is <<"{", "Items", "[", "1", "]", "}">>.              *)
(***************************************************************************)
EXTENDS Integers, Sequences, FiniteSets, TLC

NULL == "null"
UNDEFINED == "undefined"

\* JavaScript truthiness of the string-or-absent values the model uses.
Falsy(v) == v \in {UNDEFINED, NULL, ""}

(***************************************************************************)
(* Bounds of the model.                                                    *)
(***************************************************************************)
\* concurrent handler invocations suspended at their fetch
MaxInflight == 1
\* client instances constructed during one run
MaxClients == 2
\* HTTP requests handed to the protocol transport and not yet dispatched
MaxHanded == 1
\* the same, in the specifications of the HTTP listener
MaxOverlap == 2
\* full pages the remote holds for one paginated read
MaxPages == 3
MaxSignals == 2
MaxConnections == 2

\* XERO_PAGE_SIZE
XERO_PAGE_SIZE == 100

(***************************************************************************)
(* Static tool tables.                                                     *)
(***************************************************************************)
Domains == {"contacts", "invoices", "payments", "accounts", "reports"}

xero_navigate == <<"xero", "navigate">>
xero_back     == <<"xero", "back">>

navigateTool == xero_navigate
backTool     == xero_back

contactTools ==
  << <<"xero", "contacts", "list">>,
     <<"xero", "contacts", "get">>,
     <<"xero", "contacts", "create">>,
     <<"xero", "contacts", "search">> >>

invoiceTools ==
  << <<"xero", "invoices", "list">>,
     <<"xero", "invoices", "get">>,
     <<"xero", "invoices", "create">>,
     <<"xero", "invoices", "update", "status">> >>

paymentTools ==
  << <<"xero", "payments", "list">>,
     <<"xero", "payments", "get">>,
     <<"xero", "payments", "create">> >>

accountTools ==
  << <<"xero", "accounts", "list">>,
     <<"xero", "accounts", "get">> >>

reportTools ==
  << <<"xero", "reports", "profit", "and", "loss">>,
     <<"xero", "reports", "balance", "sheet">>,
     <<"xero", "reports", "aged", "receivables">>,
     <<"xero", "reports", "aged", "payables">> >>

\* What a switch without a default returns for a value outside its cases.
UndefinedTools == << <<UNDEFINED>> >>

\* Faulty variant: the case for "reports" returns the accounts table.
getDomainTools_reportsAsAccounts(domain) ==
  CASE domain = "contacts" -> contactTools
    [] domain = "invoices" -> invoiceTools
    [] domain = "payments" -> paymentTools
    [] domain = "accounts" -> accountTools
    [] domain = "reports"  -> accountTools
    [] OTHER               -> UndefinedTools

\* Faulty variant: the case for "payments" returns the invoices table.
getDomainTools_paymentsAsInvoices(domain) ==
  CASE domain = "contacts" -> contactTools
    [] domain = "invoices" -> invoiceTools
    [] domain = "payments" -> invoiceTools
    [] domain = "accounts" -> accountTools
    [] domain = "reports"  -> reportTools
    [] OTHER               -> UndefinedTools

getDomainTools(domain) ==
  CASE domain = "contacts" -> contactTools
    [] domain = "invoices" -> invoiceTools
    [] domain = "payments" -> paymentTools
    [] domain = "accounts" -> accountTools
    [] domain = "reports"  -> reportTools
    [] OTHER               -> UndefinedTools

Range(s) == {s[i] : i \in 1..Len(s)}

\* Faulty variant: the prefix is matched without its trailing "_".
StartsWith_withoutUnderscore(name, prefix) ==
  /\ Len(name) >= Len(prefix) - 1
  /\ \A i \in 1..(Len(prefix) - 1) : name[i] = prefix[i]

\* String.prototype.startsWith for a prefix that ends in "_" (last segment "").
StartsWith(name, prefix) ==
  /\ Len(name) >= Len(prefix)
  /\ \A i \in 1..(Len(prefix) - 1) : name[i] = prefix[i]

DomainPrefix(d) == <<"xero", d, "">>

(***************************************************************************)
(* Arguments objects.                                                      *)
(***************************************************************************)
NoArgs == [given |-> FALSE, props |-> {}]
Args(props) == [given |-> TRUE, props |-> props]

\* args[key]: the property's value, undefined when the object lacks it.
Prop(args, key) ==
  IF \E p \in args.props : p[1] = key
  THEN (CHOOSE p \in args.props : p[1] = key)[2]
  ELSE UNDEFINED

(***************************************************************************)
(* Results of the protocol handlers.                                       *)
(***************************************************************************)
NAMES == "%names"

\* kind: "result" (returned, no isError), "errorResult" (returned with
\* isError: true), "thrown" (the handler's promise rejected).
Result(op, kind, text, names) ==
  [op |-> op, kind |-> kind, text |-> text, names |-> names]

NoResult == Result("none", "none", <<>>, <<>>)

(***************************************************************************)
(* The REST client (XeroClient) and the module-level singleton.            *)
(***************************************************************************)
XeroClient(id, accessToken, tenantId) ==
  [id |-> id, accessToken |-> accessToken, tenantId |-> tenantId]

\* _client = null
NoClient == XeroClient(0, UNDEFINED, UNDEFINED)

\* The client module's state as a handler sees it: the singleton, the number
\* of instances constructed so far, and the two process.env entries.
ModuleState(cl, n, tok, ten) ==
  [client |-> cl, constructed |-> n, accessToken |-> tok, tenantId |-> ten]

\* Faulty variant: the instance is built without checking the two fields.
getClient_unchecked(mod) ==
  IF mod.client = NoClient
  THEN [throws |-> FALSE,
        client |-> XeroClient(mod.constructed + 1, mod.accessToken, mod.tenantId),
        constructed |-> mod.constructed + 1]
  ELSE [throws |-> FALSE, client |-> mod.client, constructed |-> mod.constructed]

\* Faulty variant: a cached instance is rebuilt when process.env no longer matches it.
getClient_refreshing(mod) ==
  IF mod.client = NoClient
  THEN IF Falsy(mod.accessToken) \/ Falsy(mod.tenantId)
       THEN [throws |-> TRUE, client |-> mod.client, constructed |-> mod.constructed]
       ELSE [throws |-> FALSE,
             client |-> XeroClient(mod.constructed + 1, mod.accessToken, mod.tenantId),
             constructed |-> mod.constructed + 1]
  ELSE IF /\ ~Falsy(mod.accessToken) /\ ~Falsy(mod.tenantId)
          /\ \/ mod.client.accessToken # mod.accessToken
             \/ mod.client.tenantId # mod.tenantId
  THEN [throws |-> FALSE,
        client |-> XeroClient(mod.constructed + 1, mod.accessToken, mod.tenantId),
        constructed |-> mod.constructed + 1]
  ELSE [throws |-> FALSE, client |-> mod.client, constructed |-> mod.constructed]

\* Faulty variant: the instance is assigned to _client before the fields are checked.
getClient_cachesBeforeCheck(mod) ==
  IF mod.client = NoClient
  THEN [throws |-> Falsy(mod.accessToken) \/ Falsy(mod.tenantId),
        client |-> XeroClient(mod.constructed + 1, mod.accessToken, mod.tenantId),
        constructed |-> mod.constructed + 1]
  ELSE [throws |-> FALSE, client |-> mod.client, constructed |-> mod.constructed]

\* getClient(): throws, or returns mod.client after building it if needed.
getClient(mod) ==
  IF mod.client = NoClient
  THEN IF Falsy(mod.accessToken) \/ Falsy(mod.tenantId)
       THEN [throws |-> TRUE, client |-> mod.client, constructed |-> mod.constructed]
       ELSE [throws |-> FALSE,
             client |-> XeroClient(mod.constructed + 1, mod.accessToken, mod.tenantId),
             constructed |-> mod.constructed + 1]
  ELSE [throws |-> FALSE, client |-> mod.client, constructed |-> mod.constructed]

resetClient == NoClient

CredentialsMessage ==
  <<"XERO_ACCESS_TOKEN and XERO_TENANT_ID environment variables are required. ",
    "In gateway mode, these are set from request headers automatically.">>

\* Faulty variant: every path below /mcp is taken for the protocol path.
route_byPrefix(pathname) ==
  CASE pathname = "/health"             -> "health"
    [] pathname \in {"/mcp", "/mcp/x"}  -> "mcp"
    [] OTHER                            -> "notFound"

\* The listener's two comparisons of url.pathname.
route(pathname) ==
  CASE pathname = "/health" -> "health"
    [] pathname = "/mcp"    -> "mcp"
    [] OTHER                -> "notFound"

\* Faulty variant: the request is refused only when both headers are missing.
missingCredentials_onlyIfBoth(accessToken, tenantId) ==
  Falsy(accessToken) /\ Falsy(tenantId)

\* !accessToken || !tenantId on the two header values of a request
missingCredentials(accessToken, tenantId) ==
  Falsy(accessToken) \/ Falsy(tenantId)

\* Faulty variant: process.env is overwritten but the cached instance is kept.
gatewaySwap_withoutReset(mod, accessToken, tenantId) ==
  ModuleState(mod.client, mod.constructed, accessToken, tenantId)

\* Faulty variant: the cached instance is dropped but process.env is not overwritten.
gatewaySwap_withoutOverwrite(mod, accessToken, tenantId) ==
  ModuleState(resetClient, mod.constructed, mod.accessToken, mod.tenantId)

\* resetClient(); process.env.XERO_ACCESS_TOKEN = accessToken;
\* process.env.XERO_TENANT_ID = tenantId
gatewaySwap(mod, accessToken, tenantId) ==
  ModuleState(resetClient, mod.constructed, accessToken, tenantId)

\* The query parameters of a request: a set of <<key, value>> pairs.
NoParams == {}

\* A request body: an object, a set of <<property, value>> pairs whose
\* values are token sequences (<<v>> for a plain value v, "{" k v "}" for a
\* nested object with the one property k), bare (envelope "") or as the only
\* element of the array under the property named by envelope.
Body(envelope, object) == [envelope |-> envelope, object |-> object]

\* body === undefined: no body is sent
NoBody == Body(UNDEFINED, {})

Plain(v) == <<v>>

Nested(k, v) == <<"{", k, v, "}">>

\* JSON.stringify(body): properties whose value is undefined are left out,
\* at both levels.
stringify(body) ==
  Body(body.envelope,
       {IF Len(p[2]) = 4 /\ p[2][3] = UNDEFINED
          THEN <<p[1], <<"{", "}">>>>
          ELSE p
        : p \in {q \in body.object : q[2] # Plain(UNDEFINED)}})

\* The fetch() that XeroClient.request issues: the credentials are those of
\* the instance the call is made on.
request(cl, method, path, params, body) ==
  [method |-> method, path |-> path, params |-> params,
   body |-> IF body # NoBody THEN stringify(body) ELSE NoBody,
   accessToken |-> cl.accessToken, tenantId |-> cl.tenantId]

get(cl, path, params) == request(cl, "GET", path, params, NoBody)
post(cl, path, body)  == request(cl, "POST", path, NoParams, body)
put(cl, path, body)   == request(cl, "PUT", path, NoParams, body)
delete(cl, path)      == request(cl, "DELETE", path, NoParams, NoBody)

NoFetch ==
  [method |-> "", path |-> <<>>, params |-> NoParams, body |-> NoBody,
   accessToken |-> "", tenantId |-> ""]

\* Remote outcomes: fetch rejects (network failure) or resolves to a response.
Response(rejects, status, body) ==
  [rejects |-> rejects, status |-> status, body |-> body]

ResponseOk(status) == status \in 200..299

\* A JavaScript value as the client handles it: null, undefined, an array,
\* or an object with at most one array-valued property (key "" when it has
\* none).
Value(type, key, items) == [type |-> type, key |-> key, items |-> items]

JsNull              == Value("null", "", <<>>)
JsUndefined         == Value("undefined", "", <<>>)
JsArray(items)      == Value("array", "", items)
JsObject(key, items) == Value("object", key, items)

SyntaxError == Value("SyntaxError", "", <<>>)

\* response.json(): the decoded value, or SyntaxError for a body that is no
\* JSON text.
JSONparse(body) ==
  IF body = <<"null">>
  THEN JsNull
  ELSE IF Len(body) = 2 /\ body[1] = "{" /\ body[2] = "}"
  THEN JsObject("", <<>>)
  ELSE IF /\ Len(body) >= 5
          /\ body[1] = "{" /\ body[3] = "[" /\ body[2] \notin {"{", "}", "[", "]"}
          /\ body[Len(body) - 1] = "]" /\ body[Len(body)] = "}"
  THEN JsObject(body[2], SubSeq(body, 4, Len(body) - 2))
  ELSE SyntaxError

\* JSON.stringify(value, null, 2): indented text; undefined for undefined.
JSONstringify(value) ==
  CASE value.type = "null" -> <<"null">>
    [] value.type = "object" /\ value.key = "" -> <<"{}">>
    [] value.type = "object" /\ value.key # "" ->
         <<"{\n  ", value.key, ": [\n    ">> \o value.items \o <<"\n  ]\n}">>
    [] value.type = "array" -> <<"[\n  ">> \o value.items \o <<"\n]">>
    [] OTHER -> <<UNDEFINED>>

\* How an awaited client call ends: it throws message, or yields value.
Settled(throws, value, message) ==
  [throws |-> throws, value |-> value, message |-> message]

\* Faulty variant: the body of a 204 response is decoded like any other.
requestSettled_decodes204(fetch, response) ==
  IF response.rejects
  THEN Settled(TRUE, JsUndefined, <<"fetch failed">>)
  ELSE IF ~ResponseOk(response.status)
  THEN Settled(TRUE, JsUndefined,
               <<"Xero API error ", fetch.method, " /">> \o fetch.path
                 \o <<" (", ToString(response.status), "): ">> \o response.body)
  ELSE IF JSONparse(response.body) = SyntaxError
  THEN Settled(TRUE, JsUndefined, <<"Unexpected token in JSON">>)
  ELSE Settled(FALSE, JSONparse(response.body), <<>>)

\* Faulty variant: a response that is not ok yields null instead of an error.
requestSettled_swallowsStatus(fetch, response) ==
  IF response.rejects
  THEN Settled(TRUE, JsUndefined, <<"fetch failed">>)
  ELSE IF ~ResponseOk(response.status) \/ response.status = 204
  THEN Settled(FALSE, JsNull, <<>>)
  ELSE IF JSONparse(response.body) = SyntaxError
  THEN Settled(TRUE, JsUndefined, <<"Unexpected token in JSON">>)
  ELSE Settled(FALSE, JSONparse(response.body), <<>>)

\* What the rest of XeroClient.request does once the fetch has settled.
requestSettled(fetch, response) ==
  IF response.rejects
  THEN Settled(TRUE, JsUndefined, <<"fetch failed">>)
  ELSE IF ~ResponseOk(response.status)
  THEN Settled(TRUE, JsUndefined,
               <<"Xero API error ", fetch.method, " /">> \o fetch.path
                 \o <<" (", ToString(response.status), "): ">> \o response.body)
  ELSE IF response.status = 204
  THEN Settled(FALSE, JsNull, <<>>)
  ELSE IF JSONparse(response.body) = SyntaxError
  THEN Settled(TRUE, JsUndefined, <<"Unexpected token in JSON">>)
  ELSE Settled(FALSE, JSONparse(response.body), <<>>)

(***************************************************************************)
(* XeroClient.getPaginated.                                                *)
(***************************************************************************)
\* { ...params, page: String(page) }
withPage(params, page) ==
  {q \in params : q[1] # "page"} \cup {<<"page", ToString(page)>>}

\* The items of a page, or undefined.
Items(defined, items) == [throws |-> FALSE, defined |-> defined, items |-> items]

\* responseKey ? response[responseKey]
\*             : Object.values(response).find((v) => Array.isArray(v));
\* both throw a TypeError on null.
pageItems(response, responseKey) ==
  IF response.type = "null"
  THEN [throws |-> TRUE, defined |-> FALSE, items |-> <<>>]
  ELSE IF ~Falsy(responseKey)
  THEN IF response.key = responseKey
       THEN Items(TRUE, response.items) ELSE Items(FALSE, <<>>)
  ELSE IF response.key # ""
       THEN Items(TRUE, response.items) ELSE Items(FALSE, <<>>)

\* Faulty variant: any page that has items is followed by another request.
hasMoreAfter_anyItems(items) == Len(items) >= 1

\* Faulty variant: a page of exactly XERO_PAGE_SIZE items ends the read.
hasMoreAfter_strict(items) == Len(items) > XERO_PAGE_SIZE

\* hasMore = items.length >= XERO_PAGE_SIZE
hasMoreAfter(items) == Len(items) >= XERO_PAGE_SIZE

\* Faulty variant: the page replaces what was collected so far.
pushAll_replacing(allItems, items) == items

\* allItems.push(...items)
pushAll(allItems, items) == allItems \o items

\* One turn of the while loop after its await: kind "await" when the loop
\* goes on to request page, "return" when it ends, "throw" on an error.
Turn(kind, page, allItems, message) ==
  [kind |-> kind, page |-> page, allItems |-> allItems, message |-> message]

\* Faulty variant: a page whose request failed is skipped and the next one
\* is requested.
getPaginatedResumed_skipsFailures(locals, outcome) ==
  IF outcome.throws
  THEN Turn("await", locals.page + 1, locals.allItems, <<>>)
  ELSE LET found == pageItems(outcome.value, locals.responseKey) IN
       IF found.throws
       THEN Turn("throw", locals.page, locals.allItems,
                 <<"Cannot read properties of null">>)
       ELSE IF found.defined /\ Len(found.items) > 0
       THEN Turn(IF hasMoreAfter(found.items) THEN "await" ELSE "return",
                 locals.page + 1, pushAll(locals.allItems, found.items), <<>>)
       ELSE Turn("return", locals.page, locals.allItems, <<>>)

\* Faulty variant: a page whose request failed is requested again.
getPaginatedResumed_retries(locals, outcome) ==
  IF outcome.throws
  THEN Turn("await", locals.page, locals.allItems, <<>>)
  ELSE LET found == pageItems(outcome.value, locals.responseKey) IN
       IF found.throws
       THEN Turn("throw", locals.page, locals.allItems,
                 <<"Cannot read properties of null">>)
       ELSE IF found.defined /\ Len(found.items) > 0
       THEN Turn(IF hasMoreAfter(found.items) THEN "await" ELSE "return",
                 locals.page + 1, pushAll(locals.allItems, found.items), <<>>)
       ELSE Turn("return", locals.page, locals.allItems, <<>>)

\* Faulty variant: a failed page ends the loop and the items gathered so
\* far are returned.
getPaginatedResumed_returnsGathered(locals, outcome) ==
  IF outcome.throws
  THEN Turn("return", locals.page, locals.allItems, <<>>)
  ELSE LET found == pageItems(outcome.value, locals.responseKey) IN
       IF found.throws
       THEN Turn("throw", locals.page, locals.allItems,
                 <<"Cannot read properties of null">>)
       ELSE IF found.defined /\ Len(found.items) > 0
       THEN Turn(IF hasMoreAfter(found.items) THEN "await" ELSE "return",
                 locals.page + 1, pushAll(locals.allItems, found.items), <<>>)
       ELSE Turn("return", locals.page, locals.allItems, <<>>)

getPaginatedResumed(locals, outcome) ==
  IF outcome.throws
  THEN Turn("throw", locals.page, locals.allItems, outcome.message)
  ELSE LET found == pageItems(outcome.value, locals.responseKey) IN
       IF found.throws
       THEN Turn("throw", locals.page, locals.allItems,
                 <<"Cannot read properties of null">>)
       ELSE IF found.defined /\ Len(found.items) > 0
       THEN Turn(IF hasMoreAfter(found.items) THEN "await" ELSE "return",
                 locals.page + 1, pushAll(locals.allItems, found.items), <<>>)
       ELSE Turn("return", locals.page, locals.allItems, <<>>)

(***************************************************************************)
(* Outcomes of the synchronous part of a handler: it returns a result,     *)
(* throws, or is suspended at the fetch it has just issued.  Handled pairs *)
(* the outcome with the client singleton as the handler leaves it.         *)
(***************************************************************************)
Outcome(kind, result, message, fetch) ==
  [kind |-> kind, result |-> result, message |-> message, fetch |-> fetch]

Return(result) == Outcome("return", result, <<>>, NoFetch)
Throw(message) == Outcome("throw", NoResult, message, NoFetch)
Await(fetch)   == Outcome("await", NoResult, <<>>, fetch)

Handled(outcome, g) ==
  [outcome |-> outcome, client |-> g.client, constructed |-> g.constructed]

TextResult(text, names)  == Result("call", "result", text, names)
ErrorResult(text, names) == Result("call", "errorResult", text, names)

\* The properties of keys that the handler copies from args when their value
\* is truthy.
Truthy(args, keys) ==
  {<<k, Plain(Prop(args, k))>> : k \in {j \in keys : ~Falsy(Prop(args, j))}}

\* The properties of keys that the handler copies when they are not
\* undefined.
Defined(args, keys) ==
  {<<k, Plain(Prop(args, k))>> : k \in {j \in keys : Prop(args, j) # UNDEFINED}}

\* if (page !== undefined) params.page = String(page)
pageParam(args) ==
  IF Prop(args, "page") # UNDEFINED THEN {<<"page", Prop(args, "page")>>} ELSE {}

\* `${field}=="${value}"`
Filter(field, value) == field \o "==\"" \o value \o "\""

\* filters.join(" AND ")
RECURSIVE joinAnd(_)
joinAnd(filters) ==
  IF Len(filters) = 1 THEN filters[1]
  ELSE filters[1] \o " AND " \o joinAnd(Tail(filters))

\* The where clause built from the truthy ones of fields, in their order;
\* no where parameter when there is none.
whereParam(args, fields) ==
  LET given == SelectSeq(fields, LAMBDA f : ~Falsy(Prop(args, f)))
      filters == [i \in DOMAIN given |-> Filter(given[i], Prop(args, given[i]))]
  IN  IF Len(filters) > 0 THEN {<<"where", joinAnd(filters)>>} ELSE {}

\* { date } and { fromDate, toDate }: the properties are passed on as they
\* are, undefined included
passed(args, keys) == {<<k, Prop(args, k)>> : k \in keys}

\* the contact object xero_contacts_create builds from its arguments
contactOf(args) ==
  {<<"Name", Plain(Prop(args, "Name"))>>}
    \cup Truthy(args, {"EmailAddress", "FirstName", "LastName",
                       "AccountNumber", "TaxNumber"})
    \cup (IF Falsy(Prop(args, "Phone")) THEN {}
          ELSE {<<"Phones", <<"[", "{", "PhoneType", "DEFAULT",
                               "PhoneNumber", Prop(args, "Phone"), "}", "]">>>>})
    \cup Defined(args, {"IsCustomer", "IsSupplier"})

\* Faulty variant: the optional fields are copied whenever they are not
\* undefined, empty ones included.
invoiceOf_copiesEmpty(args) ==
  {<<"Type", Plain(Prop(args, "Type"))>>,
   <<"Contact", Nested("ContactID", Prop(args, "ContactID"))>>,
   <<"LineItems", Plain(Prop(args, "LineItems"))>>}
    \cup Defined(args, {"Date", "DueDate", "Reference", "Status"})

\* the invoice object xero_invoices_create builds from its arguments
invoiceOf(args) ==
  {<<"Type", Plain(Prop(args, "Type"))>>,
   <<"Contact", Nested("ContactID", Prop(args, "ContactID"))>>,
   <<"LineItems", Plain(Prop(args, "LineItems"))>>}
    \cup Truthy(args, {"Date", "DueDate", "Reference", "Status"})

\* the payment object xero_payments_create builds from its arguments
paymentOf(args) ==
  {<<"Invoice", Nested("InvoiceID", Prop(args, "InvoiceID"))>>,
   <<"Account", Nested("AccountID", Prop(args, "AccountID"))>>,
   <<"Amount", Plain(Prop(args, "Amount"))>>,
   <<"Date", Plain(Prop(args, "Date"))>>}
    \cup Truthy(args, {"Reference"})

handleContactTool(name, args, mod) ==
  LET g == getClient(mod) IN
  IF g.throws THEN Handled(Throw(CredentialsMessage), g)
  ELSE CASE name = <<"xero", "contacts", "list">> ->
              Handled(Await(get(g.client, <<"Contacts">>,
                                pageParam(args) \cup
                                  (IF Falsy(Prop(args, "where")) THEN {}
                                   ELSE {<<"where", Prop(args, "where")>>}))), g)
         [] name = <<"xero", "contacts", "get">> ->
              Handled(Await(get(g.client, <<"Contacts/", Prop(args, "contactId")>>, NoParams)), g)
         [] name = <<"xero", "contacts", "create">> ->
              Handled(Await(post(g.client, <<"Contacts">>,
                                 Body("Contacts", contactOf(args)))), g)
         [] name = <<"xero", "contacts", "search">> ->
              Handled(Await(get(g.client, <<"Contacts">>,
                                {<<"where", "Name.Contains(\"" \o Prop(args, "term") \o "\")">>})), g)
         [] OTHER ->
              Handled(Return(ErrorResult(<<"Unknown contact tool: ", NAMES>>, <<name>>)), g)

handleInvoiceTool(name, args, mod) ==
  LET g == getClient(mod) IN
  IF g.throws THEN Handled(Throw(CredentialsMessage), g)
  ELSE CASE name = <<"xero", "invoices", "list">> ->
              Handled(Await(get(g.client, <<"Invoices">>,
                                pageParam(args) \cup whereParam(args, <<"Status", "Type">>))), g)
         [] name = <<"xero", "invoices", "get">> ->
              Handled(Await(get(g.client, <<"Invoices/", Prop(args, "invoiceId")>>, NoParams)), g)
         [] name = <<"xero", "invoices", "create">> ->
              Handled(Await(post(g.client, <<"Invoices">>,
                                 Body("Invoices", invoiceOf(args)))), g)
         [] name = <<"xero", "invoices", "update", "status">> ->
              Handled(Await(post(g.client, <<"Invoices/", Prop(args, "invoiceId")>>,
                                 Body("", {<<"InvoiceID", Plain(Prop(args, "invoiceId"))>>,
                                           <<"Status", Plain(Prop(args, "Status"))>>}))), g)
         [] OTHER ->
              Handled(Return(ErrorResult(<<"Unknown invoice tool: ", NAMES>>, <<name>>)), g)

handlePaymentTool(name, args, mod) ==
  LET g == getClient(mod) IN
  IF g.throws THEN Handled(Throw(CredentialsMessage), g)
  ELSE CASE name = <<"xero", "payments", "list">> ->
              Handled(Await(get(g.client, <<"Payments">>,
                                pageParam(args) \cup whereParam(args, <<"Status">>))), g)
         [] name = <<"xero", "payments", "get">> ->
              Handled(Await(get(g.client, <<"Payments/", Prop(args, "paymentId")>>, NoParams)), g)
         [] name = <<"xero", "payments", "create">> ->
              Handled(Await(post(g.client, <<"Payments">>,
                                 Body("Payments", paymentOf(args)))), g)
         [] OTHER ->
              Handled(Return(ErrorResult(<<"Unknown payment tool: ", NAMES>>, <<name>>)), g)

handleAccountTool(name, args, mod) ==
  LET g == getClient(mod) IN
  IF g.throws THEN Handled(Throw(CredentialsMessage), g)
  ELSE CASE name = <<"xero", "accounts", "list">> ->
              Handled(Await(get(g.client, <<"Accounts">>,
                                whereParam(args, <<"Type", "Class">>))), g)
         [] name = <<"xero", "accounts", "get">> ->
              Handled(Await(get(g.client, <<"Accounts/", Prop(args, "accountId")>>, NoParams)), g)
         [] OTHER ->
              Handled(Return(ErrorResult(<<"Unknown account tool: ", NAMES>>, <<name>>)), g)

handleReportTool(name, args, mod) ==
  LET g == getClient(mod) IN
  IF g.throws THEN Handled(Throw(CredentialsMessage), g)
  ELSE CASE name = <<"xero", "reports", "profit", "and", "loss">> ->
              Handled(Await(get(g.client, <<"Reports/ProfitAndLoss">>,
                                passed(args, {"fromDate", "toDate"}))), g)
         [] name = <<"xero", "reports", "balance", "sheet">> ->
              Handled(Await(get(g.client, <<"Reports/BalanceSheet">>,
                                passed(args, {"date"}))), g)
         [] name = <<"xero", "reports", "aged", "receivables">> ->
              Handled(Await(get(g.client, <<"Reports/AgedReceivablesByContact">>,
                                passed(args, {"date"}))), g)
         [] name = <<"xero", "reports", "aged", "payables">> ->
              Handled(Await(get(g.client, <<"Reports/AgedPayablesByContact">>,
                                passed(args, {"date"}))), g)
         [] OTHER ->
              Handled(Return(ErrorResult(<<"Unknown report tool: ", NAMES>>, <<name>>)), g)

(***************************************************************************)
(* The protocol handlers of src/index.ts.                                  *)
(***************************************************************************)
\* args ?? {}
Nullish(args) == IF args.given THEN args ELSE Args({})

\* The handler leaves the client singleton as it found it.
Untouched(mod) == [client |-> mod.client, constructed |-> mod.constructed]

Routed(domain, handled) ==
  [currentDomain |-> domain, outcome |-> handled.outcome,
   client |-> handled.client, constructed |-> handled.constructed]

\* Faulty variant: the confirmation is built but state.currentDomain is not assigned.
navigateBranch_withoutAssignment(args, domain, mod) ==
  IF ~args.given
  THEN Routed(domain,
              Handled(Throw(<<"Cannot destructure property 'domain' of 'args' as it is undefined.">>),
                      Untouched(mod)))
  ELSE LET target == Prop(args, "domain")
           domainTools == getDomainTools(target)
       IN  IF domainTools = UndefinedTools
           THEN Routed(domain,
                       Handled(Throw(<<"Cannot read properties of undefined (reading 'map')">>),
                               Untouched(mod)))
           ELSE Routed(domain,
                       Handled(Return(TextResult(
                                 <<"Navigated to ", target, " domain. Available tools: ", NAMES>>,
                                 domainTools)),
                               Untouched(mod)))

\* Faulty variant: the branch obtains the client before it navigates.
navigateBranch_needsClient(args, domain, mod) ==
  LET g == getClient(mod) IN
  IF g.throws
  THEN Routed(domain, Handled(Throw(CredentialsMessage), g))
  ELSE IF ~args.given
  THEN Routed(domain,
              Handled(Throw(<<"Cannot destructure property 'domain' of 'args' as it is undefined.">>),
                      g))
  ELSE LET target == Prop(args, "domain")
           domainTools == getDomainTools(target)
       IN  IF domainTools = UndefinedTools
           THEN Routed(target,
                       Handled(Throw(<<"Cannot read properties of undefined (reading 'map')">>),
                               g))
           ELSE Routed(target,
                       Handled(Return(TextResult(
                                 <<"Navigated to ", target, " domain. Available tools: ", NAMES>>,
                                 domainTools)),
                               g))

\* if (name === "xero_navigate") { ... }: the assignment to
\* state.currentDomain comes before the lookup of the domain's tools.
navigateBranch(args, domain, mod) ==
  IF ~args.given
  THEN Routed(domain,
              Handled(Throw(<<"Cannot destructure property 'domain' of 'args' as it is undefined.">>),
                      Untouched(mod)))
  ELSE LET target == Prop(args, "domain")
           domainTools == getDomainTools(target)
       IN  IF domainTools = UndefinedTools
           THEN Routed(target,
                       Handled(Throw(<<"Cannot read properties of undefined (reading 'map')">>),
                               Untouched(mod)))
           ELSE Routed(target,
                       Handled(Return(TextResult(
                                 <<"Navigated to ", target, " domain. Available tools: ", NAMES>>,
                                 domainTools)),
                               Untouched(mod)))

\* Faulty variant: the prompt is returned but state.currentDomain is not reset.
backBranch_withoutReset(domain, mod) ==
  Routed(domain,
         Handled(Return(TextResult(
                   <<"Returned to domain selection. Use xero_navigate to select a domain: contacts, invoices, payments, accounts, reports">>,
                   <<>>)),
                 Untouched(mod)))

\* if (name === "xero_back") { ... }
backBranch(domain, mod) ==
  Routed(NULL,
         Handled(Return(TextResult(
                   <<"Returned to domain selection. Use xero_navigate to select a domain: contacts, invoices, payments, accounts, reports">>,
                   <<>>)),
                 Untouched(mod)))

\* The routing by prefix and the unknown-tool result.
\* Faulty variant: the reports prefix is routed to the accounts handler.
domainHandler_reportsToAccounts(name, toolArgs, mod) ==
  IF StartsWith(name, DomainPrefix("contacts"))
  THEN handleContactTool(name, toolArgs, mod)
  ELSE IF StartsWith(name, DomainPrefix("invoices"))
  THEN handleInvoiceTool(name, toolArgs, mod)
  ELSE IF StartsWith(name, DomainPrefix("payments"))
  THEN handlePaymentTool(name, toolArgs, mod)
  ELSE IF StartsWith(name, DomainPrefix("accounts"))
          \/ StartsWith(name, DomainPrefix("reports"))
  THEN handleAccountTool(name, toolArgs, mod)
  ELSE Handled(Return(ErrorResult(
                 <<"Unknown tool: ", NAMES, ". Use xero_navigate to select a domain first.">>,
                 <<name>>)),
               Untouched(mod))

domainHandler(name, toolArgs, mod) ==
  IF StartsWith(name, DomainPrefix("contacts"))
  THEN handleContactTool(name, toolArgs, mod)
  ELSE IF StartsWith(name, DomainPrefix("invoices"))
  THEN handleInvoiceTool(name, toolArgs, mod)
  ELSE IF StartsWith(name, DomainPrefix("payments"))
  THEN handlePaymentTool(name, toolArgs, mod)
  ELSE IF StartsWith(name, DomainPrefix("accounts"))
  THEN handleAccountTool(name, toolArgs, mod)
  ELSE IF StartsWith(name, DomainPrefix("reports"))
  THEN handleReportTool(name, toolArgs, mod)
  ELSE Handled(Return(ErrorResult(
                 <<"Unknown tool: ", NAMES, ". Use xero_navigate to select a domain first.">>,
                 <<name>>)),
               Untouched(mod))

\* Faulty variant: a call that does not reach a fetch sends the router back to the
\* domain selection.
routeBranch_resetsOnFailure(name, args, domain, mod) ==
  LET handled == domainHandler(name, Nullish(args), mod) IN
  Routed(IF handled.outcome.kind = "await" THEN domain ELSE NULL, handled)

\* Everything after the two navigation branches: state.currentDomain is
\* not assigned.
routeBranch(name, args, domain, mod) ==
  Routed(domain, domainHandler(name, Nullish(args), mod))

\* The body of the CallTool handler's try block, up to its first suspension:
\* the value of state.currentDomain it leaves, and how it ends.
CallToolBody(name, args, domain, mod) ==
  IF name = xero_navigate THEN navigateBranch(args, domain, mod)
  ELSE IF name = xero_back THEN backBranch(domain, mod)
  ELSE routeBranch(name, args, domain, mod)

\* Faulty variant: no catch, the error leaves the handler.
CatchBoundary_rethrows(outcome) ==
  IF outcome.kind = "throw"
  THEN Result("call", "thrown", outcome.message, <<>>)
  ELSE outcome.result

\* The CallTool handler's catch: what the handler's promise settles to.
CatchBoundary(outcome) ==
  IF outcome.kind = "throw"
  THEN ErrorResult(<<"Error: ">> \o outcome.message, <<>>)
  ELSE outcome.result

\* A domain handler resumed after its fetch has settled.
handlerSettled(fetch, response) ==
  LET r == requestSettled(fetch, response) IN
  IF r.throws THEN Throw(r.message)
  ELSE Return(TextResult(JSONstringify(r.value), <<>>))

\* The ListTools handler: it has no try/catch of its own.
ListToolsHandler(domain) ==
  IF domain = NULL
  THEN Result("list", "result", <<>>, <<navigateTool>>)
  ELSE IF getDomainTools(domain) = UndefinedTools
  THEN Result("list", "thrown",
              <<"Spread syntax requires ...iterable[Symbol.iterator] to be a function">>,
              <<>>)
  ELSE Result("list", "result", <<>>, <<backTool>> \o getDomainTools(domain))

(***************************************************************************)
(* State.                                                                  *)
(***************************************************************************)
VARIABLES
  transportType,      \* MCP_TRANSPORT: "stdio" or "http"
  authMode,           \* AUTH_MODE: "env" or "gateway"
  currentDomain,      \* state.currentDomain
  client,             \* _client
  constructed,        \* number of XeroClient instances built so far
  XERO_ACCESS_TOKEN,  \* process.env.XERO_ACCESS_TOKEN
  XERO_TENANT_ID,     \* process.env.XERO_TENANT_ID
  inflight,           \* the fetches that suspended code is awaiting
  awaiting,           \* who is suspended at each fetch, and for which request
  handed,             \* HTTP requests passed to transport.handleRequest
  lastResult,         \* what the last settled protocol handler produced
  lastHttp,           \* the last response written by the HTTP listener
  settled,            \* how the last direct call of a client method ended
  paginating,         \* the locals of the running getPaginated call
  pagesRequested,     \* the page parameters getPaginated has sent so far
  pagesServed,        \* the item counts of the pages it has received so far
  httpServer,         \* the HTTP listener of startHttpTransport
  transport,          \* the transport the server is connected to
  shutdowns,          \* where each running call of shutdown stands
  exited              \* the code process.exit was called with, if it was

pagerVars  == <<settled, paginating, pagesRequested, pagesServed>>

lifeVars == <<httpServer, transport, shutdowns, exited>>

vars == <<transportType, authMode, currentDomain, client, constructed,
          XERO_ACCESS_TOKEN, XERO_TENANT_ID, inflight, awaiting, handed,
          lastResult, lastHttp, settled, paginating, pagesRequested,
          pagesServed, httpServer, transport, shutdowns, exited>>

\* Faulty variant: the listener demands the headers in both credential modes.
isGatewayMode_always == transportType = "http"

isGatewayMode == transportType = "http" /\ authMode = "gateway"

\* A response of the HTTP listener; the body is the JSON object it
\* serialises, a set of <<key, values>> pairs.
HttpResponse(status, body) == [status |-> status, body |-> body]
NoHttp == HttpResponse(0, {})

\* The body of GET /health, its timestamp apart.
HealthBody(gateway) ==
  {<<"status", <<"ok">>>>, <<"transport", <<"http">>>>,
   <<"authMode", <<IF gateway THEN "gateway" ELSE "env">>>>}

MissingCredentialsBody ==
  {<<"error", <<"Missing credentials">>>>,
   <<"message", <<"Gateway mode requires X-Xero-Access-Token and X-Xero-Tenant-Id headers">>>>,
   <<"required", <<"X-Xero-Access-Token", "X-Xero-Tenant-Id">>>>}

NotFoundBody ==
  {<<"error", <<"Not found">>>>, <<"endpoints", <<"/mcp", "/health">>>>}

\* The credential headers the listener read from a request it passed on;
\* it reads them in gateway mode only.
Headers(accessToken, tenantId) == [accessToken |-> accessToken, tenantId |-> tenantId]
NoHeaders == Headers(UNDEFINED, UNDEFINED)

\* The code suspended at a fetch: a tool handler ("handler"), a direct call
\* of get/post/put/delete ("caller") or getPaginated ("pager"); request is
\* the HTTP request whose handling issued the fetch.
Awaiting(by, req) == [by |-> by, request |-> req]
NotAwaiting == Awaiting("none", NoHeaders)

\* The locals of getPaginated: this, path, params, responseKey, page,
\* allItems; active while the call has not returned.
Paginating(active, self, path, params, responseKey, page, allItems) ==
  [active |-> active, self |-> self, path |-> path, params |-> params,
   responseKey |-> responseKey, page |-> page, allItems |-> allItems]

NotPaginating == Paginating(FALSE, NoClient, <<>>, NoParams, UNDEFINED, 0, <<>>)

NotSettled == Settled(FALSE, JsUndefined, <<"pending">>)

(***************************************************************************)
(* Inputs the environment may supply.                                      *)
(***************************************************************************)
RegisteredTools ==
  Range(contactTools) \cup Range(invoiceTools) \cup Range(paymentTools)
    \cup Range(accountTools) \cup Range(reportTools)

\* identifiers with a domain prefix that no handler knows
UnregisteredTools == {<<"xero", "contacts", "bogus">>, <<"xero", "reports", "">>}

\* identifiers without any domain prefix
UnknownTools ==
  {<<"unknown", "tool">>, <<"xero", "contacts">>, <<"xero", "billing", "list">>}

ToolNames ==
  {xero_navigate, xero_back} \cup RegisteredTools \cup UnregisteredTools
    \cup UnknownTools

NavigateArgs ==
  {NoArgs, Args({})} \cup {Args({<<"domain", d>>}) : d \in Domains \cup {"bogus"}}

ToolArgs ==
  {NoArgs, Args({}),
   Args({<<"contactId", "id-1">>, <<"invoiceId", "id-1">>,
         <<"paymentId", "id-1">>, <<"accountId", "id-1">>})}

ArgsOf(name) == IF name = xero_navigate THEN NavigateArgs ELSE ToolArgs

Responses ==
  {Response(TRUE, 0, <<>>),
   Response(FALSE, 200, <<"{", "}">>),
   Response(FALSE, 200, <<"{", "Items", "[", "1", "]", "}">>),
   Response(FALSE, 200, <<"<html>">>),
   Response(FALSE, 204, <<>>),
   Response(FALSE, 400, <<"Bad Request">>),
   Response(FALSE, 500, <<>>)}

\* <<access token, tenant id>>: absent, empty and populated fields
CredentialPairs ==
  {<<UNDEFINED, UNDEFINED>>, <<"", "tenant-A">>, <<"token-A", UNDEFINED>>,
   <<"token-A", "">>, <<"token-A", "tenant-A">>, <<"token-B", "tenant-B">>}

Pathnames == {"/health", "/mcp", "/", "/mcp/x"}

\* <<X-Xero-Access-Token, X-Xero-Tenant-Id>> of an HTTP request: absent,
\* empty and populated headers
HeaderPairs == CredentialPairs \cup {<<UNDEFINED, "tenant-A">>}

(***************************************************************************)
(* Initial state: the module-level initialisers, and the configuration the *)
(* process was started with.                                               *)
(***************************************************************************)
InitModules ==
  /\ currentDomain = NULL
  /\ client = NoClient
  /\ constructed = 0
  /\ inflight = [s \in 1..MaxInflight |-> NoFetch]
  /\ awaiting = [s \in 1..MaxInflight |-> NotAwaiting]
  /\ handed = <<>>
  /\ lastResult = NoResult
  /\ lastHttp = NoHttp
  /\ settled = NotSettled
  /\ paginating = NotPaginating
  /\ pagesRequested = <<>>
  /\ pagesServed = <<>>
  /\ httpServer = IF transportType = "http" THEN "listening" ELSE "none"
  /\ transport = "open"
  /\ shutdowns = <<>>
  /\ exited = <<>>

(***************************************************************************)
(* Actions.                                                                *)
(***************************************************************************)
RemoveAt(seq, i) == SubSeq(seq, 1, i - 1) \o SubSeq(seq, i + 1, Len(seq))

\* A protocol message reaches its handler: read from stdin, or taken from
\* the HTTP requests the listener passed to the transport (req is that
\* request).
Dispatched(req) ==
  \/ /\ transportType = "stdio"
     /\ req = NoHeaders
     /\ handed' = handed
  \/ /\ transportType = "http"
     /\ \E i \in DOMAIN handed :
          /\ req = handed[i]
          /\ handed' = RemoveAt(handed, i)

Dispatchable == {NoHeaders} \cup Range(handed)

FreeSlots == {s \in DOMAIN inflight : inflight[s] = NoFetch}

Pending == {s \in DOMAIN inflight : inflight[s] # NoFetch}

FirstFree == CHOOSE f \in FreeSlots : \A g \in FreeSlots : f <= g

ListTools ==
  /\ \E req \in Dispatchable : Dispatched(req)
  /\ lastResult' = ListToolsHandler(currentDomain)
  /\ UNCHANGED <<transportType, authMode, currentDomain, client, constructed,
                 XERO_ACCESS_TOKEN, XERO_TENANT_ID, inflight, awaiting,
                 lastHttp>>
  /\ UNCHANGED pagerVars
  /\ UNCHANGED lifeVars

\* The CallTool handler from its start to its return or its first await.
CallTool(name, args) ==
  LET r == CallToolBody(name, args, currentDomain,
                        ModuleState(client, constructed,
                                    XERO_ACCESS_TOKEN, XERO_TENANT_ID))
  IN  /\ r.constructed <= MaxClients
      /\ currentDomain' = r.currentDomain
      /\ client' = r.client
      /\ constructed' = r.constructed
      /\ \E req \in Dispatchable :
           /\ Dispatched(req)
           /\ IF r.outcome.kind = "await"
              THEN /\ FreeSlots # {}
                   /\ inflight' = [inflight EXCEPT ![FirstFree] = r.outcome.fetch]
                   /\ awaiting' = [awaiting EXCEPT ![FirstFree] = Awaiting("handler", req)]
                   /\ lastResult' = lastResult
              ELSE /\ inflight' = inflight
                   /\ awaiting' = awaiting
                   /\ lastResult' = CatchBoundary(r.outcome)
      /\ UNCHANGED <<transportType, authMode, XERO_ACCESS_TOKEN,
                     XERO_TENANT_ID, lastHttp>>
      /\ UNCHANGED pagerVars
      /\ UNCHANGED lifeVars

\* A fetch issued by a tool handler settles and the handler runs to its end.
FetchSettles(s, response) ==
  /\ awaiting[s].by = "handler"
  /\ inflight' = [inflight EXCEPT ![s] = NoFetch]
  /\ awaiting' = [awaiting EXCEPT ![s] = NotAwaiting]
  /\ lastResult' = CatchBoundary(handlerSettled(inflight[s], response))
  /\ UNCHANGED <<transportType, authMode, currentDomain, client, constructed,
                 XERO_ACCESS_TOKEN, XERO_TENANT_ID, handed, lastHttp>>
  /\ UNCHANGED pagerVars
  /\ UNCHANGED lifeVars

\* The HTTP request listener of startHttpTransport; accessToken and tenantId
\* are the values of the request's two credential headers.
HttpRequest(pathname, accessToken, tenantId) ==
  /\ transportType = "http"
  /\ IF route(pathname) = "health"
     THEN /\ lastHttp' = HttpResponse(200, HealthBody(isGatewayMode))
          /\ UNCHANGED <<client, XERO_ACCESS_TOKEN, XERO_TENANT_ID, handed>>
     ELSE IF route(pathname) = "mcp"
     THEN IF isGatewayMode
          THEN IF missingCredentials(accessToken, tenantId)
               THEN /\ lastHttp' = HttpResponse(401, MissingCredentialsBody)
                    /\ UNCHANGED <<client, XERO_ACCESS_TOKEN, XERO_TENANT_ID, handed>>
               ELSE LET swapped == gatewaySwap(ModuleState(client, constructed,
                                                           XERO_ACCESS_TOKEN,
                                                           XERO_TENANT_ID),
                                               accessToken, tenantId)
                    IN  /\ client' = swapped.client
                        /\ XERO_ACCESS_TOKEN' = swapped.accessToken
                        /\ XERO_TENANT_ID' = swapped.tenantId
                        /\ handed' = Append(handed, Headers(accessToken, tenantId))
                        /\ lastHttp' = lastHttp
          ELSE /\ handed' = Append(handed, NoHeaders)
               /\ UNCHANGED <<client, XERO_ACCESS_TOKEN, XERO_TENANT_ID, lastHttp>>
     ELSE /\ lastHttp' = HttpResponse(404, NotFoundBody)
          /\ UNCHANGED <<client, XERO_ACCESS_TOKEN, XERO_TENANT_ID, handed>>
  /\ UNCHANGED <<transportType, authMode, currentDomain, constructed, inflight,
                 awaiting, lastResult>>
  /\ UNCHANGED pagerVars
  /\ UNCHANGED lifeVars

\* getClient().get(path) / .post(path, body) / .put(path, body) /
\* .delete(path), called directly, up to the await of its fetch.
ClientCall(method, path, body) ==
  LET g == getClient(ModuleState(client, constructed,
                                 XERO_ACCESS_TOKEN, XERO_TENANT_ID))
  IN  /\ g.constructed <= MaxClients
      /\ client' = g.client
      /\ constructed' = g.constructed
      /\ IF g.throws
         THEN /\ settled' = Settled(TRUE, JsUndefined, CredentialsMessage)
              /\ UNCHANGED <<inflight, awaiting>>
         ELSE /\ FreeSlots # {}
              /\ inflight' =
                   [inflight EXCEPT ![FirstFree] =
                      CASE method = "GET"    -> get(g.client, path, NoParams)
                        [] method = "POST"   -> post(g.client, path, body)
                        [] method = "PUT"    -> put(g.client, path, body)
                        [] method = "DELETE" -> delete(g.client, path)]
              /\ awaiting' = [awaiting EXCEPT ![FirstFree] = Awaiting("caller", NoHeaders)]
              /\ settled' = NotSettled
      /\ UNCHANGED <<transportType, authMode, currentDomain, XERO_ACCESS_TOKEN,
                     XERO_TENANT_ID, handed, lastResult, lastHttp, paginating,
                     pagesRequested, pagesServed>>
      /\ UNCHANGED lifeVars

\* The fetch of a direct call settles and the call returns or throws.
ClientSettles(s, response) ==
  /\ awaiting[s].by = "caller"
  /\ inflight' = [inflight EXCEPT ![s] = NoFetch]
  /\ awaiting' = [awaiting EXCEPT ![s] = NotAwaiting]
  /\ settled' = requestSettled(inflight[s], response)
  /\ UNCHANGED <<transportType, authMode, currentDomain, client, constructed,
                 XERO_ACCESS_TOKEN, XERO_TENANT_ID, handed, lastResult,
                 lastHttp, paginating, pagesRequested, pagesServed>>
  /\ UNCHANGED lifeVars

\* getClient().getPaginated(path, params, responseKey) from its start to the
\* await of its first page.
GetPaginated(path, params, responseKey) ==
  LET g == getClient(ModuleState(client, constructed,
                                 XERO_ACCESS_TOKEN, XERO_TENANT_ID))
  IN  /\ ~paginating.active
      /\ g.constructed <= MaxClients
      /\ client' = g.client
      /\ constructed' = g.constructed
      /\ IF g.throws
         THEN /\ settled' = Settled(TRUE, JsUndefined, CredentialsMessage)
              /\ UNCHANGED <<inflight, awaiting, paginating, pagesRequested,
                             pagesServed>>
         ELSE /\ FreeSlots # {}
              /\ paginating' = Paginating(TRUE, g.client, path, params, responseKey, 1, <<>>)
              /\ inflight' = [inflight EXCEPT ![FirstFree] =
                                get(g.client, path, withPage(params, 1))]
              /\ awaiting' = [awaiting EXCEPT ![FirstFree] = Awaiting("pager", NoHeaders)]
              /\ pagesRequested' = <<Prop(Args(withPage(params, 1)), "page")>>
              /\ pagesServed' = <<>>
              /\ settled' = NotSettled
      /\ UNCHANGED <<transportType, authMode, currentDomain, XERO_ACCESS_TOKEN,
                     XERO_TENANT_ID, handed, lastResult, lastHttp>>
      /\ UNCHANGED lifeVars

\* Faulty variant: the page is requested on the instance that getClient()
\* returns at the moment of the request.
pageRequest_viaGetClient(locals, mod, params) ==
  get(getClient(mod).client, locals.path, params)

\* this.get(path, { ...params, page }) inside the loop: the receiver is the
\* instance getPaginated was called on; the module state mod of the moment
\* is not consulted.
pageRequest(locals, mod, params) == get(locals.self, locals.path, params)

\* The fetch of a page settles: getPaginated takes the page and either
\* requests the next one, returns allItems, or throws.
PageSettles(s, response) ==
  LET outcome == requestSettled(inflight[s], response)
      turn == getPaginatedResumed(paginating, outcome)
      next == withPage(paginating.params, turn.page)
  IN  /\ awaiting[s].by = "pager"
      /\ pagesServed' = IF outcome.throws THEN pagesServed
                        ELSE Append(pagesServed, Len(outcome.value.items))
      /\ IF turn.kind = "await"
         THEN /\ inflight' = [inflight EXCEPT ![s] =
                                pageRequest(paginating,
                                            ModuleState(client, constructed,
                                                        XERO_ACCESS_TOKEN,
                                                        XERO_TENANT_ID),
                                            next)]
              /\ awaiting' = awaiting
              /\ paginating' = [paginating EXCEPT !.page = turn.page,
                                                  !.allItems = turn.allItems]
              /\ pagesRequested' = Append(pagesRequested, Prop(Args(next), "page"))
              /\ settled' = settled
         ELSE /\ inflight' = [inflight EXCEPT ![s] = NoFetch]
              /\ awaiting' = [awaiting EXCEPT ![s] = NotAwaiting]
              /\ paginating' = [paginating EXCEPT !.active = FALSE,
                                                  !.page = turn.page,
                                                  !.allItems = turn.allItems]
              /\ pagesRequested' = pagesRequested
              /\ settled' = IF turn.kind = "throw"
                            THEN Settled(TRUE, JsUndefined, turn.message)
                            ELSE Settled(FALSE, JsArray(turn.allItems), <<>>)
      /\ UNCHANGED <<transportType, authMode, currentDomain, client, constructed,
                     XERO_ACCESS_TOKEN, XERO_TENANT_ID, handed, lastResult,
                     lastHttp>>
      /\ UNCHANGED lifeVars

\* The transport holds fewer than max requests it has not dispatched yet.
QueueBelow(max) == Len(handed) < max

\* The process-wide configuration is mutable: some code of the process
\* assigns the two process.env entries (or deletes them).
SetEnv(accessToken, tenantId) ==
  /\ XERO_ACCESS_TOKEN' = accessToken
  /\ XERO_TENANT_ID' = tenantId
  /\ UNCHANGED <<transportType, authMode, currentDomain, client, constructed,
                 inflight, awaiting, handed, lastResult, lastHttp>>
  /\ UNCHANGED pagerVars
  /\ UNCHANGED lifeVars

\* The variables the process lifecycle leaves alone.
workVars == <<transportType, authMode, currentDomain, client, constructed,
              XERO_ACCESS_TOKEN, XERO_TENANT_ID, inflight, awaiting, handed,
              lastResult, lastHttp>>

\* process.exit has not been called.
Running == exited = <<>>

\* SIGINT or SIGTERM is delivered: shutdown runs up to the await of the
\* promise around httpServer.close(callback).  The handlers are registered
\* by startHttpTransport only; nothing stops a second call while an earlier
\* one is suspended.  close() stops the listener accepting at once.
Signal ==
  /\ transportType = "http"
  /\ Running
  /\ Len(shutdowns) < MaxSignals
  /\ shutdowns' = Append(shutdowns, "awaitClose")
  /\ httpServer' = IF httpServer = "listening" THEN "draining" ELSE httpServer
  /\ UNCHANGED <<transport, exited>>
  /\ UNCHANGED workVars
  /\ UNCHANGED pagerVars

\* The last connection of the closing listener ends.
Drained ==
  /\ Running
  /\ httpServer = "draining"
  /\ httpServer' = "closed"
  /\ UNCHANGED <<transport, shutdowns, exited>>
  /\ UNCHANGED workVars
  /\ UNCHANGED pagerVars

\* The callback call i of shutdown passed to httpServer.close is run, with
\* an error (err) or without.  With an error the promise is rejected and
\* shutdown, which has no catch, ends rejected; without one shutdown goes on
\* to server.close(), which starts closing the transport, and awaits it.
CloseCallback(i, err) ==
  /\ Running
  /\ httpServer = "closed"
  /\ i \in DOMAIN shutdowns
  /\ shutdowns[i] = "awaitClose"
  /\ IF err
     THEN /\ shutdowns' = [shutdowns EXCEPT ![i] = "rejected"]
          /\ transport' = transport
     ELSE /\ shutdowns' = [shutdowns EXCEPT ![i] = "awaitServerClose"]
          /\ transport' = IF transport = "open" THEN "closing" ELSE transport
  /\ UNCHANGED <<httpServer, exited>>
  /\ UNCHANGED workVars
  /\ UNCHANGED pagerVars

\* The transport finishes closing.
TransportClosed ==
  /\ Running
  /\ transport = "closing"
  /\ transport' = "closed"
  /\ UNCHANGED <<httpServer, shutdowns, exited>>
  /\ UNCHANGED workVars
  /\ UNCHANGED pagerVars

\* await server.close() of call i of shutdown resolves: process.exit(0).
ShutdownExits(i) ==
  /\ Running
  /\ i \in DOMAIN shutdowns
  /\ shutdowns[i] = "awaitServerClose"
  /\ transport = "closed"
  /\ exited' = <<0>>
  /\ UNCHANGED <<httpServer, transport, shutdowns>>
  /\ UNCHANGED workVars
  /\ UNCHANGED pagerVars

\* The process-level handler of unhandled rejections: a rejected call of
\* shutdown is one, and the handler calls process.exit(1).
UnhandledRejection ==
  /\ Running
  /\ \E i \in DOMAIN shutdowns : shutdowns[i] = "rejected"
  /\ exited' = <<1>>
  /\ UNCHANGED <<httpServer, transport, shutdowns>>
  /\ UNCHANGED workVars
  /\ UNCHANGED pagerVars

(***************************************************************************)
(* Spec: the router over the stdio transport.  Every navigation input and  *)
(* every remote outcome; one registered tool of each domain is dispatched. *)
(***************************************************************************)
RouterTools ==
  {<<"xero", "contacts", "search">>, <<"xero", "invoices", "get">>,
   <<"xero", "payments", "create">>, <<"xero", "accounts", "list">>,
   <<"xero", "reports", "balance", "sheet">>}

RouterNames ==
  {xero_navigate, xero_back} \cup RouterTools \cup UnregisteredTools
    \cup UnknownTools

RouterCredentials ==
  {<<UNDEFINED, UNDEFINED>>, <<"", "tenant-A">>, <<"token-A", "tenant-A">>}

Init ==
  /\ transportType = "stdio"
  /\ authMode = "env"
  /\ \E pair \in RouterCredentials :
       XERO_ACCESS_TOKEN = pair[1] /\ XERO_TENANT_ID = pair[2]
  /\ InitModules

Next ==
  \/ ListTools
  \/ \E name \in RouterNames : \E args \in ArgsOf(name) : CallTool(name, args)
  \/ \E s \in 1..MaxInflight : \E response \in Responses : FetchSettles(s, response)

Spec == Init /\ [][Next]_vars

(***************************************************************************)
(* SpecCreds: the credential resolver under both transports and both       *)
(* credential modes.  AUTH_MODE is read by startHttpTransport only, so     *)
(* stdio runs are represented with authMode = "env".                       *)
(***************************************************************************)
CredsNames ==
  {xero_navigate, xero_back, <<"xero", "contacts", "list">>,
   <<"unknown", "tool">>}

CredsArgsOf(name) ==
  IF name = xero_navigate THEN {Args({<<"domain", "contacts">>})} ELSE {NoArgs}

CredsResponses ==
  {Response(TRUE, 0, <<>>), Response(FALSE, 200, <<"{", "}">>),
   Response(FALSE, 400, <<"Bad Request">>)}

InitCreds ==
  /\ transportType \in {"stdio", "http"}
  /\ authMode \in {"env", "gateway"}
  /\ transportType = "stdio" => authMode = "env"
  /\ \E pair \in CredentialPairs :
       XERO_ACCESS_TOKEN = pair[1] /\ XERO_TENANT_ID = pair[2]
  /\ InitModules

NextCreds ==
  \/ ListTools
  \/ \E name \in CredsNames : \E args \in CredsArgsOf(name) : CallTool(name, args)
  \/ \E s \in 1..MaxInflight : \E response \in CredsResponses :
       FetchSettles(s, response)
  \/ /\ QueueBelow(MaxHanded)
     /\ \E pathname \in Pathnames : \E pair \in CredentialPairs :
          HttpRequest(pathname, pair[1], pair[2])
  \/ \E pair \in CredentialPairs : SetEnv(pair[1], pair[2])

SpecCreds == InitCreds /\ [][NextCreds]_vars

(***************************************************************************)
(* SpecHttp: the HTTP listener in both credential modes, with requests     *)
(* whose handling overlaps.  process.env is assigned by the listener only. *)
(***************************************************************************)
HttpNames == {xero_back, <<"xero", "contacts", "list">>}

HttpResponses ==
  {Response(FALSE, 200, <<"{", "}">>), Response(FALSE, 400, <<"Bad Request">>)}

HttpCredentials == {<<UNDEFINED, UNDEFINED>>, <<"token-A", "tenant-A">>}

InitHttp ==
  /\ transportType = "http"
  /\ authMode \in {"env", "gateway"}
  /\ \E pair \in HttpCredentials :
       XERO_ACCESS_TOKEN = pair[1] /\ XERO_TENANT_ID = pair[2]
  /\ InitModules

NextHttp ==
  \/ \E name \in HttpNames : CallTool(name, NoArgs)
  \/ \E s \in 1..MaxInflight : \E response \in HttpResponses :
       FetchSettles(s, response)
  \/ /\ QueueBelow(MaxOverlap)
     /\ \E pathname \in Pathnames : \E pair \in HeaderPairs :
          HttpRequest(pathname, pair[1], pair[2])

SpecHttp == InitHttp /\ [][NextHttp]_vars

(***************************************************************************)
(* SpecShutdown: the HTTP listener from its start to the exit of the       *)
(* process: requests are served until the listener has closed, and         *)
(* termination signals arrive at any moment.                               *)
(***************************************************************************)
\* the listener still has connections on which requests arrive
Serving == Running /\ httpServer \in {"listening", "draining"}

NextShutdown ==
  \/ Signal
  \/ Drained
  \/ \E i \in 1..MaxSignals : \E err \in BOOLEAN : CloseCallback(i, err)
  \/ TransportClosed
  \/ \E i \in 1..MaxSignals : ShutdownExits(i)
  \/ UnhandledRejection
  \/ /\ Serving
     /\ QueueBelow(MaxHanded)
     /\ \E pathname \in Pathnames : \E pair \in HttpCredentials :
          HttpRequest(pathname, pair[1], pair[2])
  \/ /\ Running
     /\ \E name \in HttpNames : CallTool(name, NoArgs)
  \/ /\ Running
     /\ \E s \in 1..MaxInflight : \E response \in HttpResponses :
          FetchSettles(s, response)

SpecShutdown == InitHttp /\ [][NextShutdown]_vars

(***************************************************************************)
(* SpecSerial: the same listener when at most one request is in flight: a  *)
(* request arrives only after the previous one was answered.               *)
(***************************************************************************)
Serial == handed = <<>> /\ Pending = {}

NextSerial ==
  \/ \E name \in HttpNames : CallTool(name, NoArgs)
  \/ \E s \in 1..MaxInflight : \E response \in HttpResponses :
       FetchSettles(s, response)
  \/ /\ Serial
     /\ \E pathname \in Pathnames : \E pair \in HeaderPairs :
          HttpRequest(pathname, pair[1], pair[2])

SpecSerial == InitHttp /\ [][NextSerial]_vars

(***************************************************************************)
(* SpecClient: the REST client called directly (get, post, put, delete)    *)
(* and through two tool handlers, against every kind of remote outcome.    *)
(***************************************************************************)
Methods == {"GET", "POST", "PUT", "DELETE"}

ClientPaths == {<<"Invoices">>, <<"Invoices/", "id-1">>}

ClientBody == Body("", {<<"Status", Plain("PAID")>>})

ClientNames == {<<"xero", "invoices", "list">>, <<"xero", "invoices", "create">>}

ClientResponses ==
  {Response(TRUE, 0, <<>>),
   Response(FALSE, 200, <<"{", "}">>),
   Response(FALSE, 200, <<"{", "Invoices", "[", "1", "]", "}">>),
   Response(FALSE, 200, <<"<html>">>),
   Response(FALSE, 201, <<"{", "}">>),
   Response(FALSE, 204, <<>>),
   Response(FALSE, 204, <<"{", "}">>),
   Response(FALSE, 301, <<>>),
   Response(FALSE, 400, <<"Bad Request">>),
   Response(FALSE, 401, <<"{", "}">>),
   Response(FALSE, 404, <<"<html>">>),
   Response(FALSE, 500, <<>>)}

InitClient ==
  /\ transportType = "stdio"
  /\ authMode = "env"
  /\ \E pair \in RouterCredentials :
       XERO_ACCESS_TOKEN = pair[1] /\ XERO_TENANT_ID = pair[2]
  /\ InitModules

NextClient ==
  \/ \E method \in Methods : \E path \in ClientPaths :
       ClientCall(method, path, ClientBody)
  \/ \E s \in 1..MaxInflight : \E response \in ClientResponses :
       ClientSettles(s, response)
  \/ \E name \in ClientNames : CallTool(name, NoArgs)
  \/ \E s \in 1..MaxInflight : \E response \in ClientResponses :
       FetchSettles(s, response)

SpecClient == InitClient /\ [][NextClient]_vars

(***************************************************************************)
(* SpecCreate: xero_invoices_create called with every combination of       *)
(* absent, empty and supplied optional fields, in any navigation state.    *)
(***************************************************************************)
xero_invoices_create == <<"xero", "invoices", "create">>

OptionalInvoiceFields == {"Date", "DueDate", "Reference", "Status"}

\* an optional field is absent, empty or supplied
Supplied(k) == {{}, {<<k, "">>}, {<<k, "v-" \o k>>}}

\* Each optional field is absent, empty and supplied, while the other three
\* are all absent or all supplied.
CreateArgs ==
  UNION {{Args({<<"Type", "ACCREC">>, <<"ContactID", "c-1">>,
                <<"LineItems", "[line-1]">>} \cup one \cup rest) :
            one \in Supplied(k),
            rest \in {{}, {<<j, "v-" \o j>> : j \in OptionalInvoiceFields \ {k}}}} :
         k \in OptionalInvoiceFields}

CreateNames == {xero_navigate, xero_back}

CreateArgsOf(name) ==
  IF name = xero_navigate
  THEN {Args({<<"domain", "invoices">>}), Args({<<"domain", "payments">>})}
  ELSE {NoArgs}

NextCreate ==
  \/ ListTools
  \/ \E name \in CreateNames : \E args \in CreateArgsOf(name) : CallTool(name, args)
  \/ \E args \in CreateArgs : CallTool(xero_invoices_create, args)
  \/ \E s \in 1..MaxInflight : \E response \in HttpResponses :
       FetchSettles(s, response)

SpecCreate == InitClient /\ [][NextCreate]_vars

(***************************************************************************)
(* SpecRequired: tools whose input contract has required fields, called    *)
(* with and without them.                                                  *)
(***************************************************************************)
\* inputSchema.required of the tool definitions
required(name) ==
  CASE name = <<"xero", "contacts", "get">>     -> {"contactId"}
    [] name = <<"xero", "contacts", "create">>  -> {"Name"}
    [] name = <<"xero", "contacts", "search">>  -> {"term"}
    [] name = <<"xero", "invoices", "get">>     -> {"invoiceId"}
    [] name = <<"xero", "invoices", "create">>  -> {"Type", "ContactID", "LineItems"}
    [] name = <<"xero", "invoices", "update", "status">> -> {"invoiceId", "Status"}
    [] name = <<"xero", "payments", "get">>     -> {"paymentId"}
    [] name = <<"xero", "payments", "create">>  ->
         {"InvoiceID", "AccountID", "Amount", "Date"}
    [] name = <<"xero", "accounts", "get">>     -> {"accountId"}
    [] name = <<"xero", "reports", "profit", "and", "loss">> -> {"fromDate", "toDate"}
    [] name \in {<<"xero", "reports", "balance", "sheet">>,
                 <<"xero", "reports", "aged", "receivables">>,
                 <<"xero", "reports", "aged", "payables">>} -> {"date"}
    [] OTHER -> {}

RequiredNames ==
  {<<"xero", "invoices", "get">>, <<"xero", "payments", "create">>,
   <<"xero", "reports", "balance", "sheet">>, <<"xero", "contacts", "search">>}

PaymentFields ==
  {<<"InvoiceID", "id-1">>, <<"AccountID", "a-1">>, <<"Amount", "10">>,
   <<"Date", "2024-01-31">>}

RequiredArgsOf(name) ==
  CASE name = <<"xero", "invoices", "get">> ->
         {NoArgs, Args({}), Args({<<"invoiceId", "id-1">>})}
    [] name = <<"xero", "payments", "create">> ->
         {Args(PaymentFields), Args(PaymentFields \ {<<"Amount", "10">>})}
    [] name = <<"xero", "contacts", "search">> ->
         {Args({}), Args({<<"term", "Acme">>})}
    [] OTHER -> {Args({}), Args({<<"date", "2024-01-31">>})}

NextRequired ==
  \/ \E name \in RequiredNames : \E args \in RequiredArgsOf(name) :
       CallTool(name, args)
  \/ \E s \in 1..MaxInflight : \E response \in Responses : FetchSettles(s, response)

SpecRequired == InitClient /\ [][NextRequired]_vars

(***************************************************************************)
(* SpecSessions: several clients connected to the HTTP endpoint.  The      *)
(* server, its two handlers and its transport are created once; the        *)
(* handlers take the request alone and read and write the module-level     *)
(* state, whichever connection the request arrived on.                     *)
(***************************************************************************)
Connections == 1..MaxConnections

\* state.currentDomain as the handlers see it for a request of connection c
stateOf(c) == currentDomain

\* a ListTools request of connection c reaches the handler
ListToolsOn(c) == ListTools /\ lastResult' = ListToolsHandler(stateOf(c))

\* a CallTool request of connection c reaches the handler
CallToolOn(c, name, args) == CallTool(name, args) /\ currentDomain = stateOf(c)

SessionNames == {xero_navigate, xero_back, <<"xero", "contacts", "list">>}

SessionArgsOf(name) ==
  IF name = xero_navigate
  THEN {Args({<<"domain", d>>}) : d \in {"contacts", "invoices", "payments"}}
  ELSE {NoArgs}

NextSessions ==
  \/ \E c \in Connections : ListToolsOn(c)
  \/ \E c \in Connections : \E name \in SessionNames :
       \E args \in SessionArgsOf(name) : CallToolOn(c, name, args)
  \/ \E s \in 1..MaxInflight : \E response \in HttpResponses :
       FetchSettles(s, response)
  \/ /\ QueueBelow(MaxOverlap)
     /\ \E pathname \in Pathnames : \E pair \in HttpCredentials :
          HttpRequest(pathname, pair[1], pair[2])

SpecSessions == InitHttp /\ [][NextSessions]_vars

(***************************************************************************)
(* SpecPager: getPaginated against a remote that serves pages of any size  *)
(* and may fail at any page.                                               *)
(***************************************************************************)
\* the property under which the remote wraps the items of a page
ServedKey == "Invoices"

ResponseKeys == {UNDEFINED, ServedKey, "Contacts"}

\* the item counts of the pages the remote may serve: it never exceeds the
\* page size
PageSizes == 0..XERO_PAGE_SIZE

\* item i of the page the remote serves for the page parameter p
Item(p, i) == p \o "." \o ToString(i)

PageOf(p, n) == [i \in 1..n |-> Item(p, i)]

PageBody(key, p, n) == <<"{", key, "[">> \o PageOf(p, n) \o <<"]", "}">>

\* What the remote may answer to the request of a page: a page of any of
\* the sizes (a full one while it holds more full pages), or a failure.
PageResponses(fetch) ==
  LET p == Prop(Args(fetch.params), "page") IN
  {Response(FALSE, 200, PageBody(ServedKey, p, n)) :
     n \in {m \in PageSizes :
              m >= XERO_PAGE_SIZE => Len(pagesServed) < MaxPages}}
    \cup {Response(TRUE, 0, <<>>), Response(FALSE, 200, <<"{", "}">>),
          Response(FALSE, 204, <<>>), Response(FALSE, 500, <<>>)}

NextPager ==
  \/ \E responseKey \in ResponseKeys :
       GetPaginated(<<"Invoices">>, NoParams, responseKey)
  \/ \E s \in 1..MaxInflight : \E response \in PageResponses(inflight[s]) :
       PageSettles(s, response)

SpecPager == InitClient /\ [][NextPager]_vars

(***************************************************************************)
(* SpecRetries: direct calls of the four methods and getPaginated side by   *)
(* side, against a remote that answers with success, no content, an error  *)
(* status or not at all.                                                   *)
(***************************************************************************)
RetryResponses ==
  {Response(TRUE, 0, <<>>), Response(FALSE, 200, <<"{", "}">>),
   Response(FALSE, 204, <<>>), Response(FALSE, 500, <<>>)}

\* an empty page, short pages and a full page, or a failure
RetryPageResponses(fetch) ==
  LET p == Prop(Args(fetch.params), "page") IN
  {Response(FALSE, 200, PageBody(ServedKey, p, n)) :
     n \in {m \in {0, 1, 37, 99, XERO_PAGE_SIZE} :
              m >= XERO_PAGE_SIZE => Len(pagesServed) < MaxPages}}
    \cup {Response(TRUE, 0, <<>>), Response(FALSE, 200, <<"{", "}">>),
          Response(FALSE, 204, <<>>), Response(FALSE, 500, <<>>)}

NextRetries ==
  \/ \E method \in Methods : ClientCall(method, <<"Invoices">>, ClientBody)
  \/ \E s \in 1..MaxInflight : \E response \in RetryResponses :
       ClientSettles(s, response)
  \/ GetPaginated(<<"Invoices">>, NoParams, ServedKey)
  \/ \E s \in 1..MaxInflight : \E response \in RetryPageResponses(inflight[s]) :
       PageSettles(s, response)

SpecRetries == InitClient /\ [][NextRetries]_vars

(***************************************************************************)
(* SpecPagerLive: getPaginated against a remote that answers every page    *)
(* request: a pending fetch eventually settles.  The remote holds at most  *)
(* MaxPages full pages, so it eventually serves a short page or fails.     *)
(***************************************************************************)
PageAnswered ==
  \E s \in 1..MaxInflight : \E response \in RetryPageResponses(inflight[s]) :
    PageSettles(s, response)

\* the caller's params: none, or a filter and a page of its own
LiveParams == {NoParams, {<<"where", "Status==\"PAID\"">>, <<"page", "7">>}}

NextPagerLive ==
  \/ \E params \in LiveParams : \E responseKey \in ResponseKeys :
       GetPaginated(<<"Invoices">>, params, responseKey)
  \/ PageAnswered

SpecPagerLive == InitClient /\ [][NextPagerLive]_vars /\ WF_vars(PageAnswered)

(***************************************************************************)
(* SpecPinned: getPaginated and a tool handler suspended at their fetches  *)
(* while the listener resets the client and process.env is overwritten.    *)
(***************************************************************************)
PinnedCredentials == {<<"token-A", "tenant-A">>, <<"token-B", "tenant-B">>}

PinnedResponses == {Response(FALSE, 200, <<"{", "}">>)}

\* a full page while the remote holds one, a short page, or an error status
PinnedPageResponses(fetch) ==
  LET p == Prop(Args(fetch.params), "page") IN
  {Response(FALSE, 200, PageBody(ServedKey, p, n)) :
     n \in {m \in {37, XERO_PAGE_SIZE} :
              m >= XERO_PAGE_SIZE => Len(pagesServed) < MaxPages}}
    \cup {Response(FALSE, 500, <<>>)}

InitPinned ==
  /\ transportType = "http"
  /\ authMode \in {"env", "gateway"}
  /\ XERO_ACCESS_TOKEN = "token-A"
  /\ XERO_TENANT_ID = "tenant-A"
  /\ InitModules

NextPinned ==
  \/ GetPaginated(<<"Invoices">>, NoParams, ServedKey)
  \/ \E s \in 1..MaxInflight : \E response \in PinnedPageResponses(inflight[s]) :
       PageSettles(s, response)
  \/ CallTool(<<"xero", "invoices", "list">>, NoArgs)
  \/ \E s \in 1..MaxInflight : \E response \in PinnedResponses :
       FetchSettles(s, response)
  \/ SetEnv("token-B", "tenant-B")
  \/ /\ QueueBelow(MaxHanded)
     /\ \E pair \in PinnedCredentials : HttpRequest("/mcp", pair[1], pair[2])

SpecPinned == InitPinned /\ [][NextPinned]_vars

(***************************************************************************)
(* Properties.                                                             *)
(***************************************************************************)
TextStarts(result, token) == Len(result.text) >= 1 /\ result.text[1] = token

\* the tools each domain module exports
RegisteredFor(d) ==
  CASE d = "contacts" -> Range(contactTools)
    [] d = "invoices" -> Range(invoiceTools)
    [] d = "payments" -> Range(paymentTools)
    [] d = "accounts" -> Range(accountTools)
    [] d = "reports"  -> Range(reportTools)

\* identifiers that start with one of the five domain prefixes
DomainToolNames == RegisteredTools \cup UnregisteredTools

\* C1: a tool listing is a projection of the navigation state.  In ROOT it
\* returns exactly the navigate tool; in IN_DOMAIN(d) it returns the back
\* tool followed by exactly the tools registered for d, each once, and no
\* tool of another domain; and the listing leaves the navigation state as
\* it was.
C1_ListingIsProjection ==
  [][ListTools =>
       /\ currentDomain' = currentDomain
       /\ currentDomain = NULL =>
            /\ lastResult'.kind = "result"
            /\ lastResult'.names = <<navigateTool>>
       /\ \A d \in Domains : currentDomain = d =>
            /\ lastResult'.kind = "result"
            /\ Len(lastResult'.names) = 1 + Cardinality(RegisteredFor(d))
            /\ lastResult'.names[1] = backTool
            /\ Range(lastResult'.names) = {backTool} \cup RegisteredFor(d)
            /\ \A e \in Domains \ {d} :
                 Range(lastResult'.names) \cap RegisteredFor(e) = {}
     ]_vars

\* C1 witness: a listing made in IN_DOMAIN(reports) has returned the back
\* tool and the four report tools.
C1_Witness ==
  /\ lastResult.op = "list"
  /\ currentDomain = "reports"
  /\ lastResult.names = <<backTool>> \o reportTools

\* C2: the navigation state is always none (ROOT) or one of the five
\* enumerated domains, whatever tool calls were made.
C2_DomainIsEnumerated == currentDomain \in Domains \cup {NULL}

\* C3: navigate(d), d one of the five domains, can be called in every state;
\* it leaves the state IN_DOMAIN(d) and returns a confirmation without error
\* flag that names d and lists exactly the tools a listing made right after
\* it shows, the back tool apart.
C3_NavigateEntersDomain ==
  /\ [](\A d \in Domains :
          ENABLED CallTool(xero_navigate, Args({<<"domain", d>>})))
  /\ [][\A d \in Domains :
          CallTool(xero_navigate, Args({<<"domain", d>>})) =>
            /\ currentDomain' = d
            /\ lastResult'.op = "call"
            /\ lastResult'.kind = "result"
            /\ lastResult'.text =
                 <<"Navigated to ", d, " domain. Available tools: ", NAMES>>
            /\ ListToolsHandler(currentDomain').kind = "result"
            /\ <<backTool>> \o lastResult'.names =
                 ListToolsHandler(currentDomain').names
       ]_vars

\* C3 witness: the confirmation of a navigate to payments is the last result
\* and the router is in IN_DOMAIN(payments).
C3_Witness ==
  /\ TextStarts(lastResult, "Navigated to ")
  /\ lastResult.text[2] = "payments"
  /\ lastResult.names = paymentTools
  /\ currentDomain = "payments"

\* C4: back() can be called in every state, with or without arguments, and
\* leaves the router in ROOT: from IN_DOMAIN(d) reached by any navigate, and
\* from ROOT itself.
C4_BackReturnsToRoot ==
  /\ [](\A args \in ToolArgs : ENABLED CallTool(xero_back, args))
  /\ [][\A args \in ToolArgs :
          CallTool(xero_back, args) =>
            /\ currentDomain' = NULL
            /\ lastResult'.kind = "result"
            /\ TextStarts(lastResult', "Returned to domain selection. Use xero_navigate to select a domain: contacts, invoices, payments, accounts, reports")
       ]_vars

\* C4 witness: the prompt of back() is the last result and the router is in
\* ROOT.
C4_Witness ==
  /\ TextStarts(lastResult, "Returned to domain selection. Use xero_navigate to select a domain: contacts, invoices, payments, accounts, reports")
  /\ currentDomain = NULL

\* C5: the navigation state changes only in a step of navigate or back.  A
\* call of any other identifier, whether it ends in a result, in an error
\* (missing credentials, unknown tool) or at a fetch, and the settling of a
\* fetch with any remote outcome, leave it unchanged.
C5_OnlyNavigationMovesDomain ==
  [][/\ currentDomain' # currentDomain =>
          \/ \E args \in NavigateArgs : CallTool(xero_navigate, args)
          \/ \E args \in ToolArgs : CallTool(xero_back, args)
     /\ \A name \in ToolNames \ {xero_navigate, xero_back} :
          \A args \in ToolArgs :
            CallTool(name, args) => currentDomain' = currentDomain
     /\ \A s \in DOMAIN inflight : \A response \in Responses :
          FetchSettles(s, response) => currentDomain' = currentDomain
    ]_vars

\* C5 witness: a domain tool call failed on a remote error while the router
\* was in a domain.
C5_Witness ==
  /\ currentDomain = "invoices"
  /\ lastResult.kind = "errorResult"
  /\ Len(lastResult.text) >= 2
  /\ lastResult.text[2] = "Xero API error "

\* C6: a call of an identifier that is neither of the two navigation tools
\* and starts with none of the five domain prefixes returns an error-flagged
\* result in the same step: it is not thrown, no fetch is issued and no
\* client is constructed.
C6_UnknownToolIsErrorResult ==
  [][\A name \in UnknownTools : \A args \in ToolArgs :
       CallTool(name, args) =>
         /\ lastResult'.op = "call"
         /\ lastResult'.kind = "errorResult"
         /\ lastResult'.text =
              <<"Unknown tool: ", NAMES, ". Use xero_navigate to select a domain first.">>
         /\ lastResult'.names = <<name>>
         /\ inflight' = inflight
         /\ client' = client
         /\ constructed' = constructed
    ]_vars

\* C6 witness: "xero_contacts" (no trailing underscore) was called with
\* credentials present and answered as an unknown tool.
C6_Witness ==
  /\ TextStarts(lastResult, "Unknown tool: ")
  /\ lastResult.names = << <<"xero", "contacts">> >>
  /\ ~Falsy(XERO_ACCESS_TOKEN)
  /\ ~Falsy(XERO_TENANT_ID)

\* C7: whatever the CallTool handler settles to is a returned result, with
\* or without the error flag; it never rejects.
C7_CallToolNeverThrows ==
  lastResult.op = "call" => lastResult.kind \in {"result", "errorResult"}

\* C7 witness: a network failure of the fetch came back as an error-flagged
\* result.
C7_Witness ==
  /\ lastResult.op = "call"
  /\ lastResult.kind = "errorResult"
  /\ lastResult.text = <<"Error: ", "fetch failed">>

\* C8: every request sent to the remote API carries a populated access
\* token and a populated tenant id, in both credential modes and after any
\* sequence of client construction, reset and overwrite of process.env.
C8_RequestsCarryCredentials ==
  \A s \in Pending :
    /\ ~Falsy(inflight[s].accessToken)
    /\ ~Falsy(inflight[s].tenantId)

\* C8 witness: in gateway mode a second client instance, built after a reset
\* and an overwrite of process.env, has issued a request.
C8_Witness ==
  /\ isGatewayMode
  /\ client.id = 2
  /\ \E s \in Pending : inflight[s].accessToken = client.accessToken

\* C9: in Direct mode there is no client instance at process start; the
\* instance changes only in a step that dispatches a domain tool (not in a
\* listing, a navigation, an HTTP request or a change of process.env); the
\* first such dispatch with populated fields builds it from process.env;
\* and once built it stays, and getClient returns it without building
\* another, whatever process.env holds by then.
C9_DirectClientBuiltOnceLazily ==
  /\ client = NoClient
  /\ [][~isGatewayMode =>
          /\ client' # client =>
               \E name \in DomainToolNames : \E args \in ToolArgs :
                 CallTool(name, args)
          /\ \A name \in DomainToolNames : \A args \in ToolArgs :
               (/\ CallTool(name, args)
                /\ client = NoClient
                /\ ~Falsy(XERO_ACCESS_TOKEN)
                /\ ~Falsy(XERO_TENANT_ID)) =>
                 client' = XeroClient(1, XERO_ACCESS_TOKEN, XERO_TENANT_ID)
          /\ client # NoClient =>
               /\ client' = client
               /\ constructed' = 1
               /\ getClient(ModuleState(client', constructed',
                                        XERO_ACCESS_TOKEN', XERO_TENANT_ID'))
                    = [throws |-> FALSE, client |-> client, constructed |-> 1]
       ]_vars

\* C9 witness: in Direct mode the cached instance holds token-A although
\* process.env has since been changed to token-B, and a request it issued
\* is pending.
C9_Witness ==
  /\ ~isGatewayMode
  /\ client = XeroClient(1, "token-A", "tenant-A")
  /\ XERO_ACCESS_TOKEN = "token-B"
  /\ XERO_TENANT_ID = "tenant-B"
  /\ \E s \in Pending : inflight[s].accessToken = "token-A"

\* C10: in Direct mode, a domain tool dispatched while no instance is cached
\* and a credential field is absent or empty ends in the same step with the
\* error-flagged credentials message: nothing is thrown, no request is
\* issued and no instance is cached.  A dispatch made with no instance
\* cached and both fields populated builds the instance from them, and a
\* registered tool then issues its request with these credentials.
C10_DirectMissingCredentials ==
  [][~isGatewayMode /\ client = NoClient =>
       \A name \in DomainToolNames : \A args \in ToolArgs :
         CallTool(name, args) =>
           IF Falsy(XERO_ACCESS_TOKEN) \/ Falsy(XERO_TENANT_ID)
           THEN /\ lastResult' = ErrorResult(<<"Error: ">> \o CredentialsMessage, <<>>)
                /\ inflight' = inflight
                /\ client' = NoClient
                /\ constructed' = constructed
           ELSE /\ client' = XeroClient(constructed + 1, XERO_ACCESS_TOKEN, XERO_TENANT_ID)
                /\ name \in RegisteredTools =>
                     \E s \in DOMAIN inflight :
                       /\ inflight[s] = NoFetch
                       /\ inflight'[s] # NoFetch
                       /\ inflight'[s].accessToken = XERO_ACCESS_TOKEN
                       /\ inflight'[s].tenantId = XERO_TENANT_ID
    ]_vars

\* C10 witness: in Direct mode the last settled call ended with the
\* credentials error, and a later dispatch, made after process.env was
\* populated, has built the first instance and issued a request.
C10_Witness ==
  /\ ~isGatewayMode
  /\ lastResult = ErrorResult(<<"Error: ">> \o CredentialsMessage, <<>>)
  /\ client = XeroClient(1, "token-A", "tenant-A")
  /\ \E s \in Pending : inflight[s].accessToken = "token-A"

\* the request's two credential headers are not both populated
HeadersIncomplete(pair) == Falsy(pair[1]) \/ Falsy(pair[2])

BodyHas(response, key, values) == <<key, values>> \in response.body

\* C11: in gateway mode a request to /mcp on which the access-token header
\* or the tenant-id header is absent or empty is answered 401 with a body
\* whose "required" lists both header names; it is not passed to the
\* protocol transport, and the cached client instance and the two
\* process.env entries stay as they were.
C11_GatewayRefusesIncompleteHeaders ==
  [][\A pair \in HeaderPairs :
       (/\ isGatewayMode
        /\ HeadersIncomplete(pair)
        /\ HttpRequest("/mcp", pair[1], pair[2])) =>
         /\ lastHttp'.status = 401
         /\ BodyHas(lastHttp', "required",
                    <<"X-Xero-Access-Token", "X-Xero-Tenant-Id">>)
         /\ handed' = handed
         /\ client' = client
         /\ constructed' = constructed
         /\ XERO_ACCESS_TOKEN' = XERO_ACCESS_TOKEN
         /\ XERO_TENANT_ID' = XERO_TENANT_ID
         /\ inflight' = inflight
    ]_vars

\* C11 witness: in gateway mode a 401 is the last response of the listener
\* while the instance built for an earlier request is still cached and its
\* request is still pending.
C11_Witness ==
  /\ isGatewayMode
  /\ lastHttp.status = 401
  /\ client = XeroClient(1, "token-A", "tenant-A")
  /\ XERO_ACCESS_TOKEN = "token-A"
  /\ \E s \in Pending : inflight[s].accessToken = "token-A"

\* C12: in gateway mode with at most one request in flight, every request
\* to the remote API issued while handling an HTTP request that carried
\* the headers (t, n) bears exactly t and n, whatever instance or pair the
\* earlier requests left: accepting the request drops the cached instance
\* and overwrites process.env with (t, n) in the step that hands it to the
\* protocol transport.
C12_SerialRequestsUseOwnCredentials ==
  /\ [](isGatewayMode =>
          \A s \in Pending :
            /\ inflight[s].accessToken = awaiting[s].request.accessToken
            /\ inflight[s].tenantId = awaiting[s].request.tenantId)
  /\ [][\A pair \in HeaderPairs :
          (/\ isGatewayMode
           /\ ~HeadersIncomplete(pair)
           /\ HttpRequest("/mcp", pair[1], pair[2])) =>
            /\ client' = NoClient
            /\ XERO_ACCESS_TOKEN' = pair[1]
            /\ XERO_TENANT_ID' = pair[2]
            /\ handed' = Append(handed, Headers(pair[1], pair[2]))
       ]_vars

\* C12 witness: with one request in flight at a time, a request for
\* tenant-B handled after one for another tenant has built the second
\* instance and issued a request bearing token-B and tenant-B.
C12_Witness ==
  /\ isGatewayMode
  /\ client = XeroClient(2, "token-B", "tenant-B")
  /\ \E s \in Pending :
       /\ awaiting[s].request = Headers("token-B", "tenant-B")
       /\ inflight[s].accessToken = "token-B"
       /\ inflight[s].tenantId = "tenant-B"

\* C13: in gateway mode a request to the remote API bears the process-wide
\* pair as the most recently accepted HTTP request left it, not the pair of
\* the HTTP request being handled; when the handling of two requests for
\* different tenants overlaps, a call made for one of them carries the
\* token and the tenant id of the other (the witness).
C13_CallsBearLatestAcceptedCredentials ==
  [][isGatewayMode =>
       \A s \in DOMAIN inflight :
         (inflight[s] = NoFetch /\ inflight'[s] # NoFetch) =>
           /\ inflight'[s].accessToken = XERO_ACCESS_TOKEN
           /\ inflight'[s].tenantId = XERO_TENANT_ID
    ]_vars

\* C13 witness: the handler of the request that carried token-A and
\* tenant-A has issued a request bearing token-B and tenant-B.
C13_Witness ==
  /\ isGatewayMode
  /\ \E s \in Pending :
       /\ awaiting[s].by = "handler"
       /\ awaiting[s].request = Headers("token-A", "tenant-A")
       /\ inflight[s].accessToken = "token-B"
       /\ inflight[s].tenantId = "tenant-B"

\* the text of the error XeroClient.request raises for a response
StatusError(fetch, response) ==
  <<"Xero API error ", fetch.method, " /">> \o fetch.path
    \o <<" (", ToString(response.status), "): ">> \o response.body

\* C14: a direct call of get, post, put or delete whose response has status
\* 204 returns null: it does not throw, the result is not an empty object,
\* and the body is not decoded (a body that is no JSON, or that is the text
\* of an object, gives null all the same).
C14_NoContentYieldsNull ==
  [][\A s \in DOMAIN inflight : \A response \in ClientResponses :
       (/\ ClientSettles(s, response)
        /\ ~response.rejects
        /\ response.status = 204) =>
         /\ inflight[s].method \in Methods
         /\ ~settled'.throws
         /\ settled'.value = JsNull
         /\ settled'.value # JsObject("", <<>>)
         /\ settled'.value # JSONparse(response.body)
    ]_vars

\* C14 witness: a direct call has returned null.
C14_Witness ==
  /\ settled = Settled(FALSE, JsNull, <<>>)
  /\ client # NoClient

\* C15: a response whose status is outside 200..299 makes get, post, put
\* and delete throw an error whose text holds the method, the path, the
\* status code and the raw body; in a tool call the error comes back as an
\* error-flagged result with that text, never as a result without the flag.
C15_ErrorStatusSurfaces ==
  [][\A s \in DOMAIN inflight : \A response \in ClientResponses :
       (~response.rejects /\ response.status \notin 200..299) =>
         /\ ClientSettles(s, response) =>
              /\ inflight[s].method \in Methods
              /\ settled'.throws
              /\ settled'.message = StatusError(inflight[s], response)
         /\ FetchSettles(s, response) =>
              /\ lastResult'.op = "call"
              /\ lastResult'.kind = "errorResult"
              /\ lastResult'.text =
                   <<"Error: ">> \o StatusError(inflight[s], response)
    ]_vars

\* C15 witness: a direct DELETE has thrown on a 404 and a tool call has
\* returned the error-flagged text of a 400.
C15_Witness ==
  /\ settled.throws
  /\ settled.message =
       <<"Xero API error ", "DELETE", " /", "Invoices/", "id-1", " (", "404", "): ", "<html>">>
  /\ lastResult.kind = "errorResult"
  /\ lastResult.text =
       <<"Error: ", "Xero API error ", "POST", " /", "Invoices", " (", "400", "): ", "Bad Request">>

PagerFetches == {s \in Pending : awaiting[s].by = "pager"}

\* C16: getPaginated sends the page parameters 1, 2, 3, ... in this order,
\* has at most one page request pending and sends a request only after the
\* response to the one before it has arrived; once a page has arrived with
\* fewer than XERO_PAGE_SIZE items (none included) it sends no further
\* request.
C16_PagesRequestedInOrder ==
  /\ \A i \in DOMAIN pagesRequested : pagesRequested[i] = ToString(i)
  /\ Cardinality(PagerFetches) <= 1
  /\ \A s \in PagerFetches :
       Prop(Args(inflight[s].params), "page") = ToString(Len(pagesRequested))
  /\ Len(pagesRequested) <= Len(pagesServed) + 1
  /\ PagerFetches # {} => Len(pagesRequested) = Len(pagesServed) + 1
  /\ \A i \in DOMAIN pagesServed :
       pagesServed[i] < XERO_PAGE_SIZE =>
         /\ Len(pagesRequested) <= i
         /\ PagerFetches = {}

\* C16 witness: after two full pages a page of 37 items has arrived; three
\* requests were sent and none is pending.
C16_Witness ==
  /\ pagesRequested = <<"1", "2", "3">>
  /\ pagesServed = <<XERO_PAGE_SIZE, XERO_PAGE_SIZE, 37>>
  /\ PagerFetches = {}

\* getPaginated has returned its array
Returned ==
  /\ ~paginating.active
  /\ ~settled.throws
  /\ settled.value.type = "array"

\* the items are looked up under the property the remote uses
KeyMatches ==
  Falsy(paginating.responseKey) \/ paginating.responseKey = ServedKey

\* k pages of XERO_PAGE_SIZE items followed by a page of n items
FullThen(k, n) == [i \in 1..(k + 1) |-> IF i <= k THEN XERO_PAGE_SIZE ELSE n]

\* the first total items of the remote, in page order and in the order
\* within each page
FirstItems(total) ==
  [j \in 1..total |->
     Item(ToString(((j - 1) \div XERO_PAGE_SIZE) + 1),
          ((j - 1) % XERO_PAGE_SIZE) + 1)]

\* C17: when the remote has served k pages of XERO_PAGE_SIZE items and then
\* a page of n items, 0 < n < XERO_PAGE_SIZE, getPaginated returns exactly
\* the k * XERO_PAGE_SIZE + n items, in page order and in the order within
\* each page, and has sent exactly k + 1 requests.
C17_ConcatenatesPagesInOrder ==
  \A k \in 0..MaxPages : \A n \in 1..(XERO_PAGE_SIZE - 1) :
    (Returned /\ KeyMatches /\ pagesServed = FullThen(k, n)) =>
      /\ Len(settled.value.items) = k * XERO_PAGE_SIZE + n
      /\ settled.value.items = FirstItems(k * XERO_PAGE_SIZE + n)
      /\ Len(pagesRequested) = k + 1

\* C17 witness: pages of 100, 100 and 37 items were served and the call has
\* returned 237 items after three requests.
C17_Witness ==
  /\ Returned
  /\ pagesServed = <<100, 100, 37>>
  /\ Len(settled.value.items) = 237
  /\ settled.value.items[201] = "3.1"
  /\ Len(pagesRequested) = 3

\* C18: when the remote holds exactly k >= 1 pages of XERO_PAGE_SIZE items,
\* getPaginated does not stop at the last of them: it requests page k + 1,
\* and on receiving a page without items returns all k * XERO_PAGE_SIZE
\* items.  It never returns right after a full page.
C18_ExactMultipleNeedsEmptyPage ==
  /\ (Returned /\ KeyMatches /\ pagesServed # <<>>) =>
       pagesServed[Len(pagesServed)] < XERO_PAGE_SIZE
  /\ \A k \in 1..MaxPages :
       (KeyMatches /\ paginating.active /\ pagesServed = [i \in 1..k |-> XERO_PAGE_SIZE]) =>
         /\ pagesRequested[Len(pagesRequested)] = ToString(k + 1)
         /\ PagerFetches # {}
  /\ \A k \in 1..MaxPages :
       (Returned /\ KeyMatches /\ pagesServed = FullThen(k, 0)) =>
         /\ settled.value.items = FirstItems(k * XERO_PAGE_SIZE)
         /\ Len(pagesRequested) = k + 1

\* C18 witness: three full pages and then an empty page were served; the
\* call has returned the 300 items after four requests.
C18_Witness ==
  /\ Returned
  /\ pagesServed = <<100, 100, 100, 0>>
  /\ Len(settled.value.items) = 300
  /\ pagesRequested = <<"1", "2", "3", "4">>

\* the listener step touched neither the client module, nor process.env,
\* nor the protocol transport and its handlers
ListenerOnlyAnswers ==
  /\ client' = client
  /\ constructed' = constructed
  /\ XERO_ACCESS_TOKEN' = XERO_ACCESS_TOKEN
  /\ XERO_TENANT_ID' = XERO_TENANT_ID
  /\ handed' = handed
  /\ inflight' = inflight
  /\ lastResult' = lastResult
  /\ currentDomain' = currentDomain

\* C19: over HTTP, a request for a path other than /health and /mcp is
\* answered 404 with a body whose "endpoints" lists both paths, and a
\* request for /health is answered 200, in both credential modes and with
\* or without credential headers; neither resets the cached client,
\* overwrites process.env or reaches the protocol transport.
C19_OtherPathsAndHealth ==
  [][\A pathname \in Pathnames : \A pair \in HeaderPairs :
       HttpRequest(pathname, pair[1], pair[2]) =>
         /\ pathname \notin {"/health", "/mcp"} =>
              /\ lastHttp'.status = 404
              /\ BodyHas(lastHttp', "endpoints", <<"/mcp", "/health">>)
              /\ ListenerOnlyAnswers
         /\ pathname = "/health" =>
              /\ lastHttp'.status = 200
              /\ BodyHas(lastHttp', "status", <<"ok">>)
              /\ ListenerOnlyAnswers
    ]_vars

\* C19 witness: in gateway mode a 404 is the last response while the
\* instance built for an accepted request is cached and another accepted
\* request waits in the transport.
C19_Witness ==
  /\ isGatewayMode
  /\ lastHttp.status = 404
  /\ client # NoClient
  /\ XERO_ACCESS_TOKEN = "token-B"
  /\ Len(handed) >= 1

\* C20: over HTTP with AUTH_MODE env, every request for /mcp is passed to
\* the protocol transport in the listener step itself; no 401 (nor any
\* other response) is written by the listener, and whatever credential
\* headers the request carries, the cached client and the two process.env
\* entries stay as they were.
C20_DirectModeDelegates ==
  [][\A pair \in HeaderPairs :
       (/\ transportType = "http"
        /\ authMode = "env"
        /\ HttpRequest("/mcp", pair[1], pair[2])) =>
         /\ handed' = Append(handed, NoHeaders)
         /\ lastHttp' = lastHttp
         /\ lastHttp'.status # 401
         /\ client' = client
         /\ constructed' = constructed
         /\ XERO_ACCESS_TOKEN' = XERO_ACCESS_TOKEN
         /\ XERO_TENANT_ID' = XERO_TENANT_ID
    ]_vars

\* C20 witness: with AUTH_MODE env over HTTP, two requests wait in the
\* transport while the instance built from process.env is cached and no
\* 401 was written.
C20_Witness ==
  /\ transportType = "http"
  /\ authMode = "env"
  /\ client = XeroClient(1, "token-A", "tenant-A")
  /\ XERO_ACCESS_TOKEN = "token-A"
  /\ Len(handed) = 2
  /\ lastHttp.status # 401

\* C21: on every shutdown path started by a termination signal, a second
\* signal during shutdown and a failure reported by the closing listener
\* included, the process has exited only if the listener has stopped
\* accepting connections and the active transport has been closed.
C21_TerminatesAfterClosing ==
  exited # <<>> =>
    /\ httpServer \in {"draining", "closed"}
    /\ transport = "closed"

\* the invoice the envelope of xero_invoices_create must carry for args: the
\* three required fields, and each optional field exactly when args hold a
\* non-empty value for it
ExpectedInvoice(args) ==
  {<<"Type", <<Prop(args, "Type")>>>>,
   <<"Contact", <<"{", "ContactID", Prop(args, "ContactID"), "}">>>>,
   <<"LineItems", <<Prop(args, "LineItems")>>>>}
    \cup {<<k, <<Prop(args, k)>>>> :
            k \in {j \in OptionalInvoiceFields : Prop(args, j) \notin {UNDEFINED, ""}}}

\* the slots at which a step puts a fetch
Issued == {s \in DOMAIN inflight : inflight'[s] # NoFetch /\ inflight'[s] # inflight[s]}

\* C22: after navigate to invoices the tool list includes
\* xero_invoices_create, and a call of it with Type, ContactID and LineItems
\* issues exactly one outbound POST to Invoices whose body is the envelope
\* {Invoices: [{Type, Contact: {ContactID}, LineItems}]} with Date, DueDate,
\* Reference and Status in the invoice exactly when the caller supplied a
\* non-empty value for them (given that the credentials resolve to a client).
C22_CreatePostsEnvelope ==
  /\ [][(CallTool(xero_navigate, Args({<<"domain", "invoices">>}))
           \/ (ListTools /\ currentDomain = "invoices"))
         => \E i \in DOMAIN lastResult'.names :
              lastResult'.names[i] = xero_invoices_create]_vars
  /\ [][\A args \in CreateArgs :
          CallTool(xero_invoices_create, args) /\ client' # NoClient
            => /\ Cardinality(Issued) = 1
               /\ \A s \in Issued :
                    /\ inflight'[s].method = "POST"
                    /\ inflight'[s].path = <<"Invoices">>
                    /\ inflight'[s].params = NoParams
                    /\ inflight'[s].body.envelope = "Invoices"
                    /\ inflight'[s].body.object = ExpectedInvoice(args)]_vars
  /\ [][\A s \in DOMAIN inflight : \A response \in HttpResponses :
          FetchSettles(s, response) => Issued = {}]_vars

\* a call with an empty Date and a supplied Reference has put its POST in
\* flight, from the invoices domain
C22_Witness ==
  /\ currentDomain = "invoices"
  /\ \E s \in DOMAIN inflight :
       /\ inflight[s].method = "POST"
       /\ inflight[s].body.envelope = "Invoices"
       /\ \E p \in inflight[s].body.object : p[1] = "Reference"
       /\ ~\E p \in inflight[s].body.object : p[1] = "Date"

\* the arguments lack a field the tool's input contract requires
Omits(name, args) == \E k \in required(name) : Prop(args, k) = UNDEFINED

\* a request built from arguments that lack a required field: the
\* identifier in its path, a query parameter, or Amount or Date of its
\* payment is undefined
BuiltWithoutRequired(fetch) ==
  \/ Len(fetch.path) = 2 /\ fetch.path[2] = UNDEFINED
  \/ \E q \in fetch.params :
       q[2] = UNDEFINED \/ q[2] = "Name.Contains(\"" \o UNDEFINED \o "\")"
  \/ /\ fetch.body.envelope = "Payments"
     /\ ~({"Amount", "Date"} \subseteq {p[1] : p \in fetch.body.object})

\* C23: a tool call whose arguments omit a field that the tool's input
\* contract marks as required is reported as an error-flagged text result,
\* whether the handler answers at once or after its request has settled.
C23_MissingRequiredIsError ==
  /\ [][\A name \in RequiredNames : \A args \in RequiredArgsOf(name) :
          CallTool(name, args) /\ Omits(name, args) /\ Issued = {}
            => lastResult'.kind = "errorResult"]_vars
  /\ [][\A s \in DOMAIN inflight : \A response \in Responses :
          FetchSettles(s, response) /\ BuiltWithoutRequired(inflight[s])
            => lastResult'.kind = "errorResult"]_vars

\* the sum of the lengths of the tool lists of the domains in ds
RECURSIVE Registered(_)
Registered(ds) ==
  IF ds = {} THEN 0
  ELSE LET d == CHOOSE x \in ds : TRUE
       IN  Len(getDomainTools(d)) + Registered(ds \ {d})

\* C24: every one of the five domains registers at least one tool, and the
\* tool names are unique across the union of the five domains' tool lists;
\* so the toolsets exposed in two different domains, and any listing taken
\* in one domain and the toolset of another, share only the back tool.
C24_DomainToolsetsDisjoint ==
  /\ [](\A d \in Domains : Len(getDomainTools(d)) >= 1)
  /\ [](Cardinality(UNION {Range(getDomainTools(d)) : d \in Domains})
          = Registered(Domains))
  /\ [](\A d, e \in Domains :
          d # e => Range(ListToolsHandler(d).names)
                     \cap Range(ListToolsHandler(e).names) = {xero_back})
  /\ [][ListTools /\ currentDomain \in Domains
         => \A e \in Domains \ {currentDomain} :
              Range(lastResult'.names) \cap Range(ListToolsHandler(e).names)
                = {xero_back}]_vars

\* a listing was taken in the payments domain and shows its tools
C24_Witness ==
  /\ currentDomain = "payments"
  /\ lastResult.op = "list"
  /\ Len(lastResult.names) = 1 + Len(paymentTools)

\* C25: a domain tool call reaches its domain handler, and issues a remote
\* request, only when the tool is in the toolset that the listing exposes
\* in the current navigation state; called in ROOT or while another domain
\* is selected it is not executed.
C25_OnlyExposedToolsExecute ==
  [][\A name \in RouterTools : \A args \in ToolArgs :
       CallTool(name, args) /\ Issued # {}
         => name \in Range(ListToolsHandler(currentDomain).names)]_vars

\* C26: under the HTTP transport the navigation state is per connection: a
\* navigate or back issued by one connection does not change the toolset
\* that a listing returns to a different connection.
C26_NavigationIsPerConnection ==
  [][\A c \in Connections : \A name \in {xero_navigate, xero_back} :
       \A args \in SessionArgsOf(name) :
         CallToolOn(c, name, args)
           => \A other \in Connections \ {c} :
                ListToolsHandler(stateOf(other))' = ListToolsHandler(stateOf(other))]_vars

\* the slots other than s hold what they held
OthersKept(s) == \A t \in DOMAIN inflight \ {s} : inflight'[t] = inflight[t]

\* C27: no retries.  A get, post, put or delete call issues exactly one
\* outbound request, and when that request settles, with success, 204, a
\* non-success status or a network failure, the call ends and nothing is
\* sent again; getPaginated requests each page exactly once, and a page
\* whose request failed is not requested again.
C27_NoRetries ==
  /\ [][\A method \in Methods :
          ClientCall(method, <<"Invoices">>, ClientBody) /\ settled' = NotSettled
            => /\ Cardinality(Issued) = 1
               /\ \A s \in Issued : inflight[s] = NoFetch /\ OthersKept(s)]_vars
  /\ [][\A s \in DOMAIN inflight : \A response \in RetryResponses :
          ClientSettles(s, response)
            => inflight'[s] = NoFetch /\ OthersKept(s) /\ settled' # NotSettled]_vars
  /\ [][\A s \in DOMAIN inflight : \A response \in RetryPageResponses(inflight[s]) :
          PageSettles(s, response)
            => /\ OthersKept(s)
               /\ \/ inflight'[s] = NoFetch /\ ~paginating'.active
                  \/ /\ ~requestSettled(inflight[s], response).throws
                     /\ pagesRequested' = Append(pagesRequested,
                                                  Prop(Args(inflight'[s].params), "page"))
                     /\ Prop(Args(inflight'[s].params), "page")
                          \notin Range(pagesRequested)]_vars
  /\ [](\A i, j \in DOMAIN pagesRequested :
          pagesRequested[i] = pagesRequested[j] => i = j)

\* getPaginated has requested three pages and awaits the third
C27_Witness ==
  /\ Len(pagesRequested) = 3
  /\ paginating.active
  /\ \E s \in DOMAIN inflight : awaiting[s].by = "pager"

\* a page request of the running call is answered in this step: nothing
\* else moves the locals of a running getPaginated
PageArrives ==
  /\ paginating.active
  /\ <<paginating, pagesServed, settled, inflight>>'
       # <<paginating, pagesServed, settled, inflight>>

\* the answer is a page (of the size recorded last in pagesServed')
Served == Len(pagesServed') = Len(pagesServed) + 1

\* C28: getPaginated terminates whenever the remote eventually returns a
\* page with fewer than XERO_PAGE_SIZE items or an error: such an answer
\* ends the call, and against a remote that answers every request and holds
\* finitely many full pages a running call eventually ends.  The loop has no
\* bound on the number of pages: after a full page, however many came
\* before, the call is still running and has requested the next page, so
\* it does not end while the remote keeps serving full pages.
C28_TerminatesOnShortPage ==
  /\ paginating.active ~> ~paginating.active
  /\ [][PageArrives /\ (~Served \/ pagesServed'[Len(pagesServed')] < XERO_PAGE_SIZE)
         => ~paginating'.active /\ PagerFetches' = {}]_vars
  /\ [][PageArrives /\ Served /\ KeyMatches
           /\ pagesServed'[Len(pagesServed')] >= XERO_PAGE_SIZE
         => /\ paginating'.active
            /\ \E s \in PagerFetches' :
                 Prop(Args(inflight'[s].params), "page")
                   = ToString(Len(pagesServed') + 1)]_vars

\* MaxPages full pages have arrived and the call is still running
C28_Witness ==
  /\ paginating.active
  /\ pagesServed = [i \in 1..MaxPages |-> XERO_PAGE_SIZE]
  /\ PagerFetches # {}

\* C29: in every state reachable by any sequence of tool calls with
\* arbitrary arguments the tool listing completes and returns a toolset;
\* no earlier call, a failed or malformed navigate in particular, leaves
\* the router in a state where listing fails.
C29_ListingAlwaysCompletes ==
  /\ ListToolsHandler(currentDomain).kind = "result"
  /\ lastResult.op = "list" => lastResult.kind = "result"

\* the page carries an empty array, no array-valued property, no property
\* of the name the caller gave, or is a no-content response
YieldsNoItems(response, responseKey) ==
  /\ ~response.rejects
  /\ \/ response.status = 204
     \/ /\ response.status = 200
        /\ JSONparse(response.body).type = "object"
        /\ \/ JSONparse(response.body).items = <<>>
           \/ JSONparse(response.body).key = ""
           \/ ~Falsy(responseKey) /\ JSONparse(response.body).key # responseKey

\* C30: a page that yields no items in any form (an empty array, no
\* array-valued field or not the caller's field, a 204 no-content
\* response) ends getPaginated normally: it returns the items gathered so
\* far, raises no error and issues no further request.
C30_EmptyPageEndsNormally ==
  [][\A s \in DOMAIN inflight : \A response \in PageResponses(inflight[s]) :
       PageSettles(s, response) /\ YieldsNoItems(response, paginating.responseKey)
         => /\ ~paginating'.active
            /\ ~settled'.throws
            /\ settled'.value = JsArray(paginating.allItems)
            /\ PagerFetches' = {}]_vars

\* the credential pair a fetch carries
Carried(fetch) == <<fetch.accessToken, fetch.tenantId>>

\* C31: code that has obtained its client uses one fixed credential pair
\* for all the remote calls it makes afterwards: every page request of a
\* getPaginated call carries the pair of the instance it was called on,
\* the instance stays the same for the whole call, and a fetch in flight
\* keeps its pair, whatever reset of the client or overwrite of process.env
\* happens while the code is suspended.
C31_CredentialsPinnedPerCall ==
  /\ [](\A s \in PagerFetches :
          Carried(inflight[s]) = <<paginating.self.accessToken,
                                   paginating.self.tenantId>>)
  /\ [][paginating.active /\ paginating'.active
         => paginating'.self = paginating.self]_vars
  /\ [][\A s \in DOMAIN inflight :
          inflight[s] # NoFetch /\ inflight'[s] # NoFetch
            => Carried(inflight'[s]) = Carried(inflight[s])]_vars

\* the second page is being requested with the pair of the first, after the
\* singleton was reset and process.env was overwritten with another pair
C31_Witness ==
  /\ paginating.active
  /\ \E s \in PagerFetches :
       /\ Prop(Args(inflight[s].params), "page") = "2"
       /\ Carried(inflight[s]) = <<"token-A", "tenant-A">>
  /\ <<XERO_ACCESS_TOKEN, XERO_TENANT_ID>> = <<"token-B", "tenant-B">>
  /\ client # paginating.self

\* the step built no client and issued no remote request
NoClientNoRequest ==
  /\ client' = client
  /\ constructed' = constructed
  /\ inflight' = inflight

\* C32: navigation never depends on credentials.  Whatever process.env
\* holds, both fields absent included, navigate to a domain and back
\* succeed and move the state, a listing in ROOT or in a domain returns its
\* toolset, and none of the three (nor a malformed navigate) constructs a
\* client or issues a remote request.
C32_NavigationNeedsNoCredentials ==
  /\ [][\A d \in Domains :
          CallTool(xero_navigate, Args({<<"domain", d>>}))
            => /\ lastResult'.kind = "result"
               /\ currentDomain' = d
               /\ NoClientNoRequest]_vars
  /\ [][\A args \in NavigateArgs :
          CallTool(xero_navigate, args) => NoClientNoRequest]_vars
  /\ [][\A args \in ArgsOf(xero_back) :
          CallTool(xero_back, args)
            => /\ lastResult'.kind = "result"
               /\ currentDomain' = NULL
               /\ NoClientNoRequest]_vars
  /\ [][ListTools
         => /\ NoClientNoRequest
            /\ currentDomain \in Domains \cup {NULL} => lastResult'.kind = "result"]_vars

\* without any credentials, a listing was taken in the invoices domain; no
\* client exists
C32_Witness ==
  /\ XERO_ACCESS_TOKEN = UNDEFINED
  /\ XERO_TENANT_ID = UNDEFINED
  /\ currentDomain = "invoices"
  /\ lastResult.op = "list"
  /\ lastResult.kind = "result"
  /\ Len(lastResult.names) = 1 + Len(invoiceTools)
  /\ client = NoClient
  /\ constructed = 0

(***************************************************************************)
(* SpecDispatch: every registered tool of every domain is called, from     *)
(* ROOT and from each domain, with and without credentials, by a client    *)
(* that waits for each answer before its next call.                        *)
(***************************************************************************)
DispatchResponses == {Response(FALSE, 200, <<"{", "}">>), Response(FALSE, 404, <<"<html>">>)}

DispatchArgs ==
  {NoArgs,
   Args({<<"contactId", "id-1">>, <<"invoiceId", "id-1">>,
         <<"paymentId", "id-1">>, <<"accountId", "id-1">>})}

DispatchNames == {xero_navigate, xero_back} \cup RegisteredTools

DispatchArgsOf(name) ==
  IF name = xero_navigate
  THEN {Args({<<"domain", d>>}) : d \in Domains}
  ELSE DispatchArgs

NextDispatch ==
  \/ ListTools
  \/ /\ FreeSlots = DOMAIN inflight
     /\ \E name \in DispatchNames : \E args \in DispatchArgsOf(name) :
          CallTool(name, args)
  \/ \E s \in 1..MaxInflight : \E response \in DispatchResponses :
       FetchSettles(s, response)

SpecDispatch == Init /\ [][NextDispatch]_vars

\* the handler that domain d's module exports
ownHandler(d, name, args, mod) ==
  CASE d = "contacts" -> handleContactTool(name, args, mod)
    [] d = "invoices" -> handleInvoiceTool(name, args, mod)
    [] d = "payments" -> handlePaymentTool(name, args, mod)
    [] d = "accounts" -> handleAccountTool(name, args, mod)
    [] d = "reports"  -> handleReportTool(name, args, mod)

UnknownToolTexts ==
  {"Unknown tool: ", "Unknown contact tool: ", "Unknown invoice tool: ",
   "Unknown payment tool: ", "Unknown account tool: ", "Unknown report tool: "}

UnknownToolResult(result) ==
  /\ result.kind = "errorResult"
  /\ \E t \in UnknownToolTexts : TextStarts(result, t)

CredentialsPresent == ~Falsy(XERO_ACCESS_TOKEN) /\ ~Falsy(XERO_TENANT_ID)

\* C33: listing and dispatch agree.  For every domain d, every tool that
\* getDomainTools(d) lists and every argument object, the prefix dispatch
\* hands the identifier to d's own handler; with credentials present that
\* handler recognises it and issues its remote request, so the call leaves
\* no result yet, and no result ever recorded is an unknown-tool result.
C33_ListingAndDispatchAgree ==
  /\ [][\A d \in Domains : \A i \in 1..Len(getDomainTools(d)) :
          \A args \in DispatchArgs :
            LET name == getDomainTools(d)[i]
                mod == ModuleState(client, constructed,
                                   XERO_ACCESS_TOKEN, XERO_TENANT_ID)
                own == ownHandler(d, name, Nullish(args), mod)
            IN  CallTool(name, args)
                  => /\ domainHandler(name, Nullish(args), mod) = own
                     /\ CredentialsPresent
                          => /\ own.outcome.kind = "await"
                             /\ \E s \in DOMAIN inflight :
                                  /\ inflight[s] = NoFetch
                                  /\ inflight'[s] = own.outcome.fetch
                                  /\ awaiting'[s].by = "handler"
                             /\ lastResult' = lastResult
                             /\ currentDomain' = currentDomain]_vars
  /\ [](CredentialsPresent => ~UnknownToolResult(lastResult))

\* with credentials present and ROOT current, the last tool of the reports
\* list has been dispatched and its request is in flight
C33_Witness ==
  /\ CredentialsPresent
  /\ currentDomain = NULL
  /\ \E s \in DOMAIN inflight :
       /\ awaiting[s].by = "handler"
       /\ inflight[s].path = <<"Reports/AgedPayablesByContact">>

(***************************************************************************)
(* SpecPageFails: getPaginated over two collections; each page comes back  *)
(* full, short, or with a non-success status.                              *)
(***************************************************************************)
FailStatuses == {301, 400, 401, 404, 500}

FailedPageResponses == {Response(FALSE, status, <<"Bad Request">>) : status \in FailStatuses}

FailPageResponses(fetch) ==
  LET p == Prop(Args(fetch.params), "page") IN
  {Response(FALSE, 200, PageBody(paginating.responseKey, p, n)) :
     n \in {m \in {1, 37, XERO_PAGE_SIZE} :
              m >= XERO_PAGE_SIZE => Len(pagesServed) < MaxPages}}
    \cup FailedPageResponses

FailCollections == {"Invoices", "Contacts"}

NextPageFails ==
  \/ \E key \in FailCollections : \E params \in LiveParams :
       GetPaginated(<<key>>, params, key)
  \/ \E s \in 1..MaxInflight : \E response \in FailPageResponses(inflight[s]) :
       PageSettles(s, response)

SpecPageFails == InitClient /\ [][NextPageFails]_vars

\* C34: a page of getPaginated answered with a non-success status ends the
\* call.  The call rejects with the request's error (method, path, status
\* and body of that answer), its value carries none of the items of the
\* earlier pages, the answered request is not replaced by another, and no
\* page request exists once the call has ended.
C34_FailedPageRaises ==
  /\ [][\A s \in DOMAIN inflight : \A response \in FailedPageResponses :
          PageSettles(s, response)
            => /\ settled'.throws
               /\ settled'.value = JsUndefined
               /\ settled'.message =
                    <<"Xero API error ", "GET", " /">> \o paginating.path
                      \o <<" (", ToString(response.status), "): ">> \o response.body
               /\ ~paginating'.active
               /\ inflight'[s] = NoFetch
               /\ OthersKept(s)
               /\ pagesRequested' = pagesRequested
               /\ pagesServed' = pagesServed]_vars
  /\ [](~paginating.active => \A s \in DOMAIN awaiting : awaiting[s].by # "pager")
  /\ [][~paginating.active /\ ~paginating'.active
          => pagesRequested' = pagesRequested]_vars

\* page 3 was answered with status 500 after two full pages had been
\* gathered: the call has rejected and three requests were made
C34_Witness ==
  /\ settled.throws
  /\ settled.message[1] = "Xero API error "
  /\ settled.message[6] = "500"
  /\ settled.value = JsUndefined
  /\ pagesServed = <<XERO_PAGE_SIZE, XERO_PAGE_SIZE>>
  /\ Len(paginating.allItems) = 2 * XERO_PAGE_SIZE
  /\ pagesRequested = <<"1", "2", "3">>
  /\ ~paginating.active

====
